---- MODULE Spec2Model ----
(***************************************************************************)
(* Verification model of the FourMeme trading bot (src/src/core).          *)
(*                                                                         *)
(* The program is a single asyncio process.  Every action below is one     *)
(* run of a coroutine from one suspension point (await of a network call)  *)
(* to the next.  The components are checked under separate                 *)
(* specifications that share this module:                                  *)
(*   SpecDedup   FourMemeListener._process_event / _is_duplicate           *)
(*   SpecRange   FourMemeListener._process_block_range                     *)
(*   SpecTrend   TrendTracker.add_token                                    *)
(*   SpecTrade   TradingCoordinator + RiskManager + PositionTracker        *)
(*   SpecNonce   TradeExecutor nonce allocation and submission             *)
(***************************************************************************)
EXTENDS Integers, Sequences, FiniteSets, TLC

VARIABLES
    \* ---- FourMemeListener: dedup cache (listener.py:31-40)
    seen_txs,          \* set of dedup keys
    events_processed,  \* counter of dispatched events
    arrivals,          \* history: keys passed to _process_event, in order
    handled,           \* history: handled[i] = handlers were invoked for arrivals[i]
    last_dispatch,     \* history: the handler calls of the last _process_event
    raw_logs,          \* history: the raw log each arrival was decoded from
    \* ---- FourMemeListener: _process_block_range (listener.py:231-279)
    range_req,         \* the (from_block, to_block) of the outermost call
    calls,             \* pending calls of _process_block_range, innermost first
    leaves,            \* history: ranges whose fetch was not split further
    fetches,           \* history: every range handed to get_logs, in order
    \* ---- FourMemeListener: subscribe_to_events (listener.py:161-229)
    last_block_processed, \* the watermark of the polling loop
    poll_to,           \* to_block of the poll cycle in progress, or NoPoll
    latest_block,      \* the chain height the loop read last
    poll_sleep,        \* the sleep the last pass of the loop ended in
    gather_tasks,      \* tasks of _parse_and_process_event under asyncio.gather
    invocations,       \* history: the handler calls of the cycle, in order
    \* ---- TrendTracker (trend_tracker.py:24-32)
    symbol_clusters,   \* dict: prefix -> list of [ts, addr, sym]
    triggered_clusters,\* set of prefixes already signalled
    trend_now,         \* datetime.now(), in minutes
    last_add,          \* history: arguments and return value of the last add_token
    \* ---- TradingCoordinator, RiskManager, PositionTracker
    cfg,               \* PositionTracker strategy parameters (position.py:36-44)
    today,             \* datetime.now().date(), in days
    clock,             \* time.time(), in ticks
    risk_manager,      \* RiskManager fields (risk.py:18-28)
    positions,         \* PositionTracker.positions: dict in insertion order
    objs,              \* the position dicts, by object identity
    buy_tasks,         \* tasks of _execute_buy_by_address awaiting buy_token
    sells,             \* _sell_partial/_sell_all coroutines awaiting sell_token
    periodic,          \* position of run_periodic_check
    last_sell,         \* history: the sell that returned in the last step
    \* ---- TradeExecutor (trader.py:100-126)
    local_nonce,       \* TradeExecutor.local_nonce, NoNonce for None
    nonce_lock,        \* asyncio.Lock: the task holding it, or NoTask
    chain_count,       \* eth.get_transaction_count(wallet): mined transactions
    submitted,         \* history: transactions the node accepted, in order
    trader_tasks,      \* the running buy_token / sell_token coroutines
    starts,            \* number of buy_token / sell_token calls so far
    simulated,         \* history: what the calls returned without trading
    \* ---- TradeFilter (filter.py:19-51)
    creator_history,   \* dict: creator -> list of [ts, addr]
    creator_blacklist, \* set of creators
    filter_now,        \* datetime.now(), in ticks
    reputation_calls,  \* should_buy coroutines awaiting _check_wallet_reputation
    filter_calls,      \* number of should_buy calls so far
    last_check,        \* history: the should_buy call that ran in the last step
    \* ---- FourMemeMonitor.shutdown (main.py:183-201)
    liquidation,       \* position of close_all, and the history of its pass
    \* ---- TradingConfig (trading_config.py:20-21, 49)
    enable_trading,    \* ENABLE_TRADING
    enable_backtest,   \* ENABLE_BACKTEST
    trend_tracker_on,  \* FILTER_ENABLE_TREND_TRACKING
    \* ---- WSConnectionManager (ws_manager.py:19-26)
    is_connected,      \* WSConnectionManager.is_connected
    retry_count,       \* WSConnectionManager.retry_count
    last_block_time,   \* WSConnectionManager.last_block_time, in seconds
    ws_now,            \* time.time(), in seconds
    ws_callers,        \* position of each coroutine that uses the manager
    ws_events,         \* history: reconnect attempts and successful connects
    chain_height,      \* eth.block_number of the node
    seen_head,         \* history: the last new head the heartbeat observed
    last_beat,         \* history: the heartbeat check of the last step
    w3,                \* the AsyncWeb3 handle: the provider it wraps, or NoHandle
    provider,          \* the WebSocketProvider object, or NoHandle
    pool,              \* the providers that are open
    \* ---- environment
    winding_down            \* the environment sends no new buy signals any more

listenerVars == <<seen_txs, events_processed, arrivals, handled,
                 last_dispatch, raw_logs>>
rangeVars    == <<range_req, calls, leaves, fetches>>
trendVars    == <<symbol_clusters, triggered_clusters, trend_now, last_add>>
tradeVars    == <<cfg, today, clock, risk_manager, positions, objs,
                 buy_tasks, sells, periodic, last_sell>>
nonceVars    == <<local_nonce, nonce_lock, chain_count, submitted,
                 trader_tasks, starts, simulated>>
pollHead     == <<latest_block, poll_sleep>>
pollVars     == <<last_block_processed, poll_to, gather_tasks, invocations,
                 pollHead>>
configVars   == <<enable_trading, enable_backtest, trend_tracker_on>>
wsHandle     == <<w3, provider, pool>>
wsVars       == <<is_connected, retry_count, last_block_time, ws_now,
                 ws_callers, ws_events, chain_height, seen_head, last_beat,
                 wsHandle>>
filterVars   == <<creator_history, creator_blacklist, filter_now,
                 reputation_calls, filter_calls, last_check>>
vars == <<seen_txs, events_processed, arrivals, handled, last_dispatch,
          raw_logs,
          range_req, calls, leaves, fetches,
          symbol_clusters, triggered_clusters, trend_now, last_add,
          cfg, today, clock, risk_manager, positions, objs,
          buy_tasks, sells, periodic, last_sell,
          local_nonce, nonce_lock, chain_count, submitted, trader_tasks,
          starts, simulated, liquidation, filterVars, pollVars, configVars,
          wsVars, winding_down>>

\* what each component leaves alone
NotListener == <<rangeVars, trendVars, tradeVars, nonceVars, liquidation, filterVars, pollVars, configVars, wsVars, winding_down>>
NotRange    == <<listenerVars, trendVars, tradeVars, nonceVars, liquidation, filterVars, pollVars, configVars, wsVars, winding_down>>
NotTrend    == <<listenerVars, rangeVars, tradeVars, nonceVars, liquidation, filterVars, pollVars, configVars, wsVars, winding_down>>
NotTrade    == <<listenerVars, rangeVars, trendVars, nonceVars, liquidation, filterVars, pollVars, configVars, wsVars, winding_down>>
NotNonce    == <<listenerVars, rangeVars, trendVars, tradeVars, liquidation, filterVars, pollVars, configVars, wsVars, winding_down>>
NotPoll     == <<listenerVars, trendVars, tradeVars, nonceVars, liquidation,
                 filterVars, configVars, wsVars, winding_down>>
NotWs       == <<listenerVars, rangeVars, trendVars, tradeVars, nonceVars,
                 liquidation, filterVars, pollVars, configVars, winding_down>>
NotFilter   == <<listenerVars, rangeVars, trendVars, tradeVars, nonceVars,
                 liquidation, pollVars, configVars, wsVars, winding_down>>

\* ------------------------------------------------------------------------
\* Generic helpers
\* ------------------------------------------------------------------------
Range(s) == {s[i] : i \in DOMAIN s}

Max2(a, b) == IF a >= b THEN a ELSE b
Min2(a, b) == IF a <= b THEN a ELSE b

\* ------------------------------------------------------------------------
\* FourMemeListener: deduplication and dispatch
\* ------------------------------------------------------------------------
\* Size ceiling of the dedup cache and size of one eviction batch.  The
\* program uses 1000 and 100 (listener.py:33, listener.py:123); the model
\* keeps their relation (0 < batch < ceiling) at a size TLC can enumerate.
max_cache_size == 3
evict_batch == 2

MaxArrivals == 6

TxHashes == {"0xa", "0xb", "0xc"}
NoLogIndex == -1
LogIndexes == {NoLogIndex, 0, 1}

\* A decoded event as handed to _process_event: the transaction hash and
\* the logIndex field, which manually decoded events do not carry.
Events == [transactionHash : TxHashes, logIndex : LogIndexes]

\* event_data.get('logIndex', 0) followed by f"{tx_hash}_{log_index}"
DedupKey(event_data) ==
    <<event_data.transactionHash,
      IF event_data.logIndex = NoLogIndex THEN 0 ELSE event_data.logIndex>>

\* list(self.seen_txs)[:100] of a Python set of strings: the iteration
\* order of a set follows the (per-process randomised) string hashes, so
\* any subset of the batch size can be the one that is discarded.
EvictChoices(cache) ==
    IF Cardinality(cache) > max_cache_size
    THEN {ev \in SUBSET cache : Cardinality(ev) = Min2(evict_batch, Cardinality(cache))}
    ELSE {{}}

\* _is_duplicate: the cache after a call that returned False
SeenAfterInsert(cache, key, ev) == (cache \cup {key}) \ ev

\* the names _parse_and_process_event decodes a log as (listener.py:291)
EventNames == {"TokenCreate", "TokenPurchase", "TokenSale", "TradeStop",
               "LiquidityAdded", "TokenPurchase2"}

\* event_handlers after FourMemeMonitor.initialize (main.py:77-88)
event_handlers ==
    [ TokenCreate    |-> <<"process_event", "on_token_create">>,
      TokenPurchase  |-> <<"process_event", "on_token_purchase">>,
      TokenSale      |-> <<"process_event", "on_token_sale">>,
      TradeStop      |-> <<"process_event">>,
      LiquidityAdded |-> <<"process_event">> ]

\* self.event_handlers.get(event_name, [])
HandlersOf(event_name) ==
    IF event_name \in DOMAIN event_handlers THEN event_handlers[event_name]
    ELSE <<>>

\* which handlers of a list raise when they are awaited
RaiseChoices == SUBSET (1..2)

NoDispatch == [dispatched |-> FALSE, after_raise |-> FALSE]

RECURSIVE HandlerLoop_stops_at_raise(_, _, _)
HandlerLoop_stops_at_raise(handlers, raising, i) ==
    IF i > Len(handlers) THEN <<>>
    ELSE <<[handler |-> handlers[i], raised |-> i \in raising]>>
           \o (IF i \in raising THEN <<>>
               ELSE HandlerLoop_stops_at_raise(handlers, raising, i + 1))

RECURSIVE HandlerLoop(_, _, _)
\* the for loop over the handlers from the i-th on: each is awaited inside
\* its own try, an Exception is logged and the loop goes on
HandlerLoop(handlers, raising, i) ==
    IF i > Len(handlers) THEN <<>>
    ELSE <<[handler |-> handlers[i], raised |-> i \in raising]>>
           \o HandlerLoop(handlers, raising, i + 1)

\* a log of the chain, and no log (an event handed over without one)
RawLogIndexes == {0, 1}
RawLogs == [transactionHash : TxHashes, logIndex : RawLogIndexes]
NoLog == [transactionHash |-> "none"]

\* _process_event(event_name, event_data) for the event decoded from
\* event_log; the handlers of `raising` raise
DispatchLog(event_name, event_data, raising, event_log) ==
    LET key == DedupKey(event_data)
        after_raise == \/ last_dispatch.after_raise
                       \/ /\ last_dispatch.dispatched
                          /\ \E i \in DOMAIN last_dispatch.invoked :
                                last_dispatch.invoked[i].raised
    IN
    /\ Len(arrivals) < MaxArrivals
    /\ arrivals' = Append(arrivals, key)
    /\ raw_logs' = Append(raw_logs, event_log)
    /\ IF key \in seen_txs
       THEN /\ handled' = Append(handled, FALSE)
            /\ last_dispatch' = [NoDispatch EXCEPT !.after_raise = after_raise]
            /\ UNCHANGED <<seen_txs, events_processed>>
       ELSE /\ \E ev \in EvictChoices(seen_txs \cup {key}) :
                 seen_txs' = SeenAfterInsert(seen_txs, key, ev)
            /\ handled' = Append(handled, TRUE)
            /\ last_dispatch' =
                 [dispatched |-> TRUE, after_raise |-> after_raise,
                  event_name |-> event_name,
                  invoked |-> HandlerLoop(HandlersOf(event_name), raising, 1)]
            /\ events_processed' = events_processed + 1
    /\ UNCHANGED NotListener

\* _process_event(event_name, event_data)
Dispatch(event_name, event_data, raising) ==
    DispatchLog(event_name, event_data, raising, NoLog)

\* _process_event for one decoded event whose handlers return normally
ProcessEvent(event_data) ==
    \E event_name \in EventNames : Dispatch(event_name, event_data, {})

ListenerInit ==
    /\ seen_txs = {}
    /\ events_processed = 0
    /\ arrivals = <<>>
    /\ handled = <<>>
    /\ last_dispatch = NoDispatch
    /\ raw_logs = <<>>

\* ---- _parse_and_process_event (listener.py:281-430) -----------------------
\* how a log is decoded: by the contract ABI, or by the byte offsets of the
\* manual fallback for the known topics
Decoders == {"abi", "manual"}

\* the names of the events the manual fallback normalises to
TradeEventNames == {"TokenPurchase", "TokenSale"}

\* processed_log: process_log of the ABI keeps the logIndex of the log, the
\* dict built by the manual fallback has no logIndex
Decode(event_log, decoder) ==
    [transactionHash |-> event_log.transactionHash,
     logIndex |-> IF decoder = "abi" THEN event_log.logIndex ELSE NoLogIndex]

MaxDecoded == 4

\* _parse_and_process_event(event_log) for a log that one of the two paths
\* decodes; a log is decoded the same way each time it is delivered
ParseAndProcess(event_log, decoder, event_name) ==
    /\ Len(arrivals) < MaxDecoded
    /\ \A i \in DOMAIN raw_logs :
          raw_logs[i].log = event_log => raw_logs[i].decoder = decoder
    /\ DispatchLog(event_name, Decode(event_log, decoder), {},
                   [log |-> event_log, decoder |-> decoder])

\* ------------------------------------------------------------------------
\* FourMemeListener: _process_block_range
\* ------------------------------------------------------------------------
MaxBlock == 6
MaxDepthCap == 6

\* mid = (from_block + to_block) // 2
Mid(from_block, to_block) == (from_block + to_block) \div 2

\* the single-block test of the rate-limit branch: to_block - from_block <= 0
IsSingle_strict(from_block, to_block) == to_block - from_block < 0

IsSingle(from_block, to_block) == to_block - from_block <= 0

\* the two recursive calls made after a rate-limit error
Halves_overlap(c) ==
    LET mid == Mid(c.from_block, c.to_block) IN
    << [from_block |-> c.from_block, to_block |-> mid,
        retry_count |-> c.retry_count + 1],
       [from_block |-> mid, to_block |-> c.to_block,
        retry_count |-> c.retry_count + 1] >>

Halves(c) ==
    LET mid == Mid(c.from_block, c.to_block) IN
    << [from_block |-> c.from_block, to_block |-> mid,
        retry_count |-> c.retry_count + 1],
       [from_block |-> mid + 1, to_block |-> c.to_block,
        retry_count |-> c.retry_count + 1] >>

RangeIdle ==
    /\ range_req = <<0, 0>>
    /\ calls = <<>>
    /\ leaves = <<>>
    /\ fetches = <<>>

RangeInit ==
    /\ \E f \in 0..MaxBlock : \E t \in f..MaxBlock :
         /\ range_req = <<f, t>>
         /\ calls = << [from_block |-> f, to_block |-> t, retry_count |-> 0] >>
    /\ leaves = <<>>
    /\ fetches = <<>>

\* get_logs returned: logs are processed, the call ends
FetchOk ==
    /\ calls # <<>>
    /\ LET c == Head(calls) IN
       /\ fetches' = Append(fetches, <<c.from_block, c.to_block>>)
       /\ leaves' = Append(leaves, [from_block |-> c.from_block,
                                    to_block |-> c.to_block, outcome |-> "ok"])
       /\ calls' = Tail(calls)
    /\ UNCHANGED <<range_req, NotRange>>

\* get_logs raised an error that is not a rate-limit error: logged, call ends
FetchOtherError ==
    /\ calls # <<>>
    /\ LET c == Head(calls) IN
       /\ fetches' = Append(fetches, <<c.from_block, c.to_block>>)
       /\ leaves' = Append(leaves, [from_block |-> c.from_block,
                                    to_block |-> c.to_block, outcome |-> "error"])
       /\ calls' = Tail(calls)
    /\ UNCHANGED <<range_req, NotRange>>

\* get_logs raised a rate-limit error: skip a single block, else bisect
FetchRateLimited ==
    /\ calls # <<>>
    /\ LET c == Head(calls) IN
       /\ c.retry_count < MaxDepthCap
       /\ fetches' = Append(fetches, <<c.from_block, c.to_block>>)
       /\ IF IsSingle(c.from_block, c.to_block)
          THEN /\ leaves' = Append(leaves, [from_block |-> c.from_block,
                                           to_block |-> c.to_block,
                                           outcome |-> "skipped"])
               /\ calls' = Tail(calls)
          ELSE /\ leaves' = leaves
               /\ calls' = Halves(c) \o Tail(calls)
    /\ UNCHANGED <<range_req, NotRange>>

\* ------------------------------------------------------------------------
\* FourMemeListener: the polling loop of subscribe_to_events
\* ------------------------------------------------------------------------
\* blocks fetched by one cycle at most: min(latest_block, last + 20)
poll_chunk == 3
NoPoll == -1

\* the logs of the contract on the chain, by block: the decoded event names
\* in the order get_logs returns them
BlockLogs(b) ==
    CASE b % 3 = 1 -> <<"TokenCreate", "TokenPurchase">>
      [] b % 3 = 2 -> <<"TradeStop">>
      [] OTHER -> <<>>

RECURSIVE LogsOf(_, _)
\* what get_logs returns for a range: the logs of its blocks, ascending
LogsOf(from_block, to_block) ==
    IF from_block > to_block THEN <<>>
    ELSE [i \in DOMAIN BlockLogs(from_block) |->
             [block |-> from_block, index |-> i,
              event_name |-> BlockLogs(from_block)[i]]]
         \o LogsOf(from_block + 1, to_block)

PollInit ==
    /\ last_block_processed = 0
    /\ poll_to = NoPoll
    /\ gather_tasks = <<>>
    /\ invocations = <<>>
    /\ latest_block = 0
    /\ poll_sleep = "none"

ToBlock_whole_lag(latest, last) == latest

\* to_block = min(latest_block, self.last_block_processed + 20)
ToBlock(latest, last) == Min2(latest, last + poll_chunk)

\* one pass of the while loop up to the await of _process_block_range:
\* block_number returns `latest`, a height the chain has reached
Poll(latest) ==
    /\ poll_to = NoPoll
    /\ calls = <<>>
    /\ latest >= latest_block
    /\ latest > last_block_processed
    /\ latest_block' = latest
    /\ poll_sleep' = "none"
    /\ LET to_block == ToBlock(latest, last_block_processed) IN
       /\ poll_to' = to_block
       /\ range_req' = <<last_block_processed + 1, to_block>>
       /\ calls' = << [from_block |-> last_block_processed + 1,
                       to_block |-> to_block, retry_count |-> 0] >>
    /\ leaves' = <<>>
    /\ fetches' = <<>>
    /\ invocations' = <<>>
    /\ UNCHANGED <<last_block_processed, gather_tasks, NotPoll>>

\* a pass of the while loop that finds no new block: it sleeps 0.5 s
PollNothingNew(latest) ==
    /\ poll_to = NoPoll
    /\ latest >= latest_block
    /\ ~(latest > last_block_processed)
    /\ latest_block' = latest
    /\ poll_sleep' = "poll"
    /\ UNCHANGED <<rangeVars, last_block_processed, poll_to, gather_tasks,
                   invocations, NotPoll>>

\* block_number raises: the except branch logs and sleeps 5 s
PollError ==
    /\ poll_to = NoPoll
    /\ poll_sleep' = "backoff"
    /\ UNCHANGED <<rangeVars, last_block_processed, poll_to, gather_tasks,
                   invocations, latest_block, NotPoll>>

StillBehind_never(last, latest) == FALSE

\* the catch-up test: self.last_block_processed < latest_block
StillBehind(last, latest) == last < latest

\* _process_block_range has returned: self.last_block_processed = to_block,
\* then `continue` while still behind, the 0.5 s sleep otherwise
PollDone ==
    /\ poll_to # NoPoll
    /\ calls = <<>>
    /\ last_block_processed' = poll_to
    /\ poll_to' = NoPoll
    /\ poll_sleep' = IF StillBehind(poll_to, latest_block) THEN "none"
                     ELSE "poll"
    /\ UNCHANGED <<rangeVars, gather_tasks, invocations, latest_block, NotPoll>>

\* get_logs returned a non-empty list: one task per log is handed to gather
FetchLogs ==
    /\ calls # <<>>
    /\ gather_tasks = <<>>
    /\ LET c == Head(calls)
           logs == LogsOf(c.from_block, c.to_block)
       IN
       /\ logs # <<>>
       /\ fetches' = Append(fetches, <<c.from_block, c.to_block>>)
       /\ gather_tasks' = [i \in DOMAIN logs |->
                              [log |-> logs[i], pos |-> i, pc |-> "new",
                               next |-> 1]]
    /\ UNCHANGED <<range_req, calls, leaves, last_block_processed, poll_to,
                   invocations, pollHead, NotPoll>>

\* a handler suspends only at an await that yields to the event loop:
\* process_event awaits only coroutines that never yield; the coordinator's
\* handlers await RPC calls
CanSuspend_any(handler) == TRUE

CanSuspend(handler) == handler # "process_event"

RECURSIVE RunHandlers(_, _, _, _)
\* a task runs its handlers from the k-th on until one suspends (`stop` is
\* the index of the handler that suspends, 0 for none) or the list ends
RunHandlers(task, handlers, k, stop) ==
    IF k > Len(handlers) THEN <<>>
    ELSE <<[fetch |-> Len(fetches), pos |-> task.pos, block |-> task.log.block,
            handler |-> handlers[k]]>>
           \o (IF k = stop THEN <<>>
               ELSE RunHandlers(task, handlers, k + 1, stop))

\* the event loop runs task i: a new task only after the ones created
\* before it have started, a suspended task at any time
RunTask(i, stop) ==
    /\ i \in DOMAIN gather_tasks
    /\ LET task == gather_tasks[i]
           handlers == HandlersOf(task.log.event_name)
       IN
       /\ task.pc \in {"new", "suspended"}
       /\ task.pc = "new" => \A j \in 1..(i - 1) : gather_tasks[j].pc # "new"
       /\ stop = 0 \/ (stop \in task.next..Len(handlers)
                          /\ CanSuspend(handlers[stop]))
       /\ invocations' =
            invocations \o RunHandlers(task, handlers, task.next, stop)
       /\ gather_tasks' =
            [gather_tasks EXCEPT ![i] =
                IF stop = 0 THEN [@ EXCEPT !.pc = "done"]
                ELSE [@ EXCEPT !.pc = "suspended", !.next = stop + 1]]
    /\ UNCHANGED <<rangeVars, last_block_processed, poll_to, pollHead,
                   NotPoll>>

\* gather returns: every task has ended, the call of _process_block_range ends
GatherDone ==
    /\ gather_tasks # <<>>
    /\ \A i \in DOMAIN gather_tasks : gather_tasks[i].pc = "done"
    /\ LET c == Head(calls) IN
       /\ leaves' = Append(leaves, [from_block |-> c.from_block,
                                    to_block |-> c.to_block, outcome |-> "ok"])
       /\ calls' = Tail(calls)
    /\ gather_tasks' = <<>>
    /\ UNCHANGED <<range_req, fetches, last_block_processed, poll_to,
                   invocations, pollHead, NotPoll>>

\* ------------------------------------------------------------------------
\* WSConnectionManager (ws_manager.py:16-130)
\* ------------------------------------------------------------------------
max_retry_delay == 60
stall_threshold == 300
heartbeat_interval == 60
heartbeat_error_delay == 10
not_connected_delay == 5

MaxRetries == 7
MaxWsEvents == 8
MaxNow == 400
MaxReconnectNow == 40
MaxHeight == 2

\* the coroutines that call ensure_connection: monitor_heartbeat and the
\* except branch of subscribe_to_events
WsCallers == {"heartbeat", "listener"}
IdleCaller == [pc |-> "idle", wake |-> 0]
NoBeat == [checked |-> FALSE]

\* None; the provider objects are numbered
NoHandle == 0

WsInit ==
    /\ is_connected = TRUE
    /\ retry_count = 0
    /\ last_block_time = 0
    /\ ws_now = 0
    /\ ws_callers = [c \in WsCallers |-> IdleCaller]
    /\ ws_events = <<>>
    /\ chain_height = 1
    /\ seen_head = [height |-> 0, since |-> 0]
    /\ last_beat = NoBeat
    /\ provider = 1
    /\ w3 = 1
    /\ pool = {1}

\* a read of the block number through handle h can return only when the
\* provider that h wraps is open
CanRead(h) == h # NoHandle /\ h \in pool

Backoff_uncapped(k) == 2 ^ (k - 1)

\* delay = min(2 ** (self.retry_count - 1), self.max_retry_delay)
Backoff(k) == Min2(2 ^ (k - 1), max_retry_delay)

\* asyncio.sleep(seconds)
Sleeping(seconds) == [pc |-> "sleep", wake |-> ws_now + seconds]

\* where a caller continues when ensure_connection has returned: the
\* heartbeat reads the block number or sleeps, the listener sleeps
AfterEnsure(c, connected) ==
    IF c = "heartbeat"
    THEN IF connected THEN [pc |-> "beat", wake |-> 0]
         ELSE Sleeping(not_connected_delay)
    ELSE Sleeping(not_connected_delay)

\* reconnect() up to its sleep
ReconnectStart(c) ==
    /\ retry_count < MaxRetries
    /\ Len(ws_events) < MaxWsEvents
    /\ retry_count' = retry_count + 1
    /\ ws_callers' = [ws_callers EXCEPT ![c] =
                         [pc |-> "backoff",
                          wake |-> ws_now + Backoff(retry_count + 1)]]
    /\ ws_events' = Append(ws_events, [kind |-> "attempt",
                                       delay |-> Backoff(retry_count + 1)])

\* ensure_connection(): the connection test passes, or reconnect() starts
EnsureConnection(c, test_ok) ==
    /\ ws_callers[c].pc = "idle"
    /\ test_ok => CanRead(w3)
    /\ IF ~is_connected \/ w3 = NoHandle
       THEN /\ UNCHANGED is_connected
            /\ ReconnectStart(c)
       ELSE IF test_ok
       THEN /\ ws_callers' = [ws_callers EXCEPT ![c] = AfterEnsure(c, TRUE)]
            /\ UNCHANGED <<is_connected, retry_count, ws_events>>
       ELSE /\ is_connected' = FALSE
            /\ ReconnectStart(c)
    /\ last_beat' = NoBeat
    /\ UNCHANGED <<last_block_time, ws_now, chain_height, seen_head, wsHandle,
                   NotWs>>

\* a caller suspended in an await on provider or handle `on`
Awaiting(pc, on) == [pc |-> pc, wake |-> 0, on |-> on]

\* the providers that are open or that a field or a suspended caller
\* still refers to
ProvidersInUse ==
    pool \cup {provider, w3}
         \cup {ws_callers[c].on :
                 c \in {d \in WsCallers :
                          ws_callers[d].pc \in {"closing", "connecting", "dial"}}}

\* WebSocketProvider(...): an object distinct from every one in use
NewProvider ==
    CHOOSE n \in 1..(Cardinality(ProvidersInUse) + 1) :
        /\ n \notin ProvidersInUse
        /\ \A m \in 1..(n - 1) : m \in ProvidersInUse

\* the last three assignments of disconnect() once provider `closed` has
\* been disconnected, then connect() up to its await of provider.connect():
\* a new provider is made and stored
DropAndDial(c, closed) ==
    /\ is_connected' = FALSE
    /\ w3' = NoHandle
    /\ provider' = NewProvider
    /\ pool' = pool \ {closed}
    /\ ws_callers' = [ws_callers EXCEPT ![c] =
                         Awaiting("connecting", NewProvider)]

\* reconnect() after its sleep: disconnect() awaits the disconnect() of
\* the provider stored at that moment, or goes on when there is none
BackoffDone(c) ==
    /\ ws_callers[c].pc = "backoff"
    /\ ws_callers[c].wake <= ws_now
    /\ IF provider # NoHandle
       THEN /\ ws_callers' = [ws_callers EXCEPT ![c] =
                                 Awaiting("closing", provider)]
            /\ UNCHANGED <<is_connected, wsHandle>>
       ELSE DropAndDial(c, NoHandle)
    /\ last_beat' = NoBeat
    /\ UNCHANGED <<retry_count, last_block_time, ws_now, ws_events,
                   chain_height, seen_head, NotWs>>

\* provider.disconnect() has returned: disconnect() ends, connect() starts
Closed(c) ==
    /\ ws_callers[c].pc = "closing"
    /\ DropAndDial(c, ws_callers[c].on)
    /\ last_beat' = NoBeat
    /\ UNCHANGED <<retry_count, last_block_time, ws_now, ws_events,
                   chain_height, seen_head, NotWs>>

\* provider.connect() returns: self.w3 = AsyncWeb3(self.provider), with the
\* provider stored at that moment, and the test read of the block number is
\* awaited; or it raises: connect() sets is_connected = False and returns
\* False
Connected(c, ok) ==
    /\ ws_callers[c].pc = "connecting"
    /\ IF ok
       THEN /\ pool' = pool \cup {ws_callers[c].on}
            /\ w3' = provider
            /\ ws_callers' = [ws_callers EXCEPT ![c] =
                                 Awaiting("dial", provider)]
            /\ UNCHANGED is_connected
       ELSE /\ is_connected' = FALSE
            /\ ws_callers' = [ws_callers EXCEPT ![c] = AfterEnsure(c, FALSE)]
            /\ UNCHANGED <<w3, pool>>
    /\ last_beat' = NoBeat
    /\ UNCHANGED <<retry_count, last_block_time, ws_now, ws_events,
                   chain_height, seen_head, provider, NotWs>>

\* the test read of connect() returns or raises: connect() returns True or
\* False to reconnect(), which returns it
Dial(c, ok) ==
    /\ ws_callers[c].pc = "dial"
    /\ ok => CanRead(ws_callers[c].on)
    /\ is_connected' = ok
    /\ retry_count' = IF ok THEN 0 ELSE retry_count
    /\ ws_events' = IF ok THEN Append(ws_events, [kind |-> "connected"])
                    ELSE ws_events
    /\ Len(ws_events') <= MaxWsEvents
    /\ ws_callers' = [ws_callers EXCEPT ![c] = AfterEnsure(c, ok)]
    /\ last_beat' = NoBeat
    /\ UNCHANGED <<last_block_time, ws_now, chain_height, seen_head, wsHandle,
                   NotWs>>

\* monitor_heartbeat after ensure_connection: the block number is read and
\* the time since the last iteration is tested; an exception is logged
Beat(ok) ==
    /\ ws_callers["heartbeat"].pc = "beat"
    /\ ok => CanRead(w3)
    /\ IF ok
       THEN LET time_since_last == ws_now - last_block_time
                advanced == chain_height > seen_head.height
            IN
            /\ last_beat' = [checked |-> TRUE,
                             warned |-> time_since_last > stall_threshold,
                             advanced |-> advanced,
                             stalled_for |-> ws_now - seen_head.since]
            /\ seen_head' = IF advanced
                            THEN [height |-> chain_height, since |-> ws_now]
                            ELSE seen_head
            /\ last_block_time' = ws_now
            /\ ws_callers' = [ws_callers EXCEPT !["heartbeat"] =
                                 Sleeping(heartbeat_interval)]
       ELSE /\ last_beat' = NoBeat
            /\ ws_callers' = [ws_callers EXCEPT !["heartbeat"] =
                                 Sleeping(heartbeat_error_delay)]
            /\ UNCHANGED <<seen_head, last_block_time>>
    /\ UNCHANGED <<is_connected, retry_count, ws_now, ws_events, chain_height,
                   wsHandle, NotWs>>

\* an asyncio.sleep of a loop ends and the loop starts over
WakeUp(c) ==
    /\ ws_callers[c].pc = "sleep"
    /\ ws_callers[c].wake <= ws_now
    /\ ws_callers' = [ws_callers EXCEPT ![c] = IdleCaller]
    /\ last_beat' = NoBeat
    /\ UNCHANGED <<is_connected, retry_count, last_block_time, ws_now,
                   ws_events, chain_height, seen_head, wsHandle, NotWs>>

\* time passes until the next sleeper is due, up to max_now
ElapseTo(max_now) ==
    LET waiting == {c \in WsCallers : ws_callers[c].pc \in {"sleep", "backoff"}}
        due == {ws_callers[c].wake : c \in waiting}
    IN
    /\ due # {}
    /\ \A t \in due : t > ws_now
    /\ \E t \in due : /\ \A u \in due : t <= u
                      /\ t <= max_now
                      /\ ws_now' = t
    /\ last_beat' = NoBeat
    /\ UNCHANGED <<is_connected, retry_count, last_block_time, ws_callers,
                   ws_events, chain_height, seen_head, wsHandle, NotWs>>

Elapse == ElapseTo(MaxNow)

\* the chain produces a block
NewBlock ==
    /\ chain_height < MaxHeight
    /\ chain_height' = chain_height + 1
    /\ last_beat' = NoBeat
    /\ UNCHANGED <<is_connected, retry_count, last_block_time, ws_now,
                   ws_callers, ws_events, seen_head, wsHandle, NotWs>>

\* ------------------------------------------------------------------------
\* TrendTracker
\* ------------------------------------------------------------------------
\* constructor arguments (TradingConfig.FILTER_TREND_*); the window is
\* counted in minutes
window_minutes == 2
threshold == 3
prefix_length == 4

MaxTrendTime == 4
MaxAdds == 5

\* str.upper() on the characters used by the symbols below
Upper(ch) ==
    CASE ch = "p" -> "P"
      [] ch = "e" -> "E"
      [] OTHER -> ch

UpperSeq(str) == [i \in DOMAIN str |-> Upper(str[i])]

\* symbol[:n]
Prefix(str, n) == SubSeq(str, 1, Min2(n, Len(str)))

\* the tokens that can be created, each with the symbol of its TokenCreate
TokenSymbol ==
    [ a1 |-> <<"P", "E", "P", "E", "1">>,
      a2 |-> <<"p", "e", "p", "e", "2">>,
      a3 |-> <<"P", "E", "P", "E">>,
      a4 |-> <<"D", "O", "G", "E", "X">>,
      a5 |-> <<"P", "E", "P">>,
      a6 |-> <<"P", "E", "P", "E", "6">>,
      a7 |-> <<"P", "E", "P", "E", "7">> ]

TrendTokens == DOMAIN TokenSymbol

\* the tokens whose TokenCreate may arrive any number of times
TrendInputs == {"a1", "a2", "a3", "a4", "a5"}

\* TokenCreate events of five tokens of one prefix, in the order of creation
SignalOrder == <<"a1", "a2", "a3", "a6", "a7">>

NoPrefix == <<>>

\* add_token's early return: not symbol or len(symbol) < prefix_length
TooShort(symbol) == symbol = <<>> \/ Len(symbol) < prefix_length

\* symbol[:prefix_length].upper()
PrefixOf(symbol) == UpperSeq(Prefix(symbol, prefix_length))

\* entries kept by _cleanup_old_entries: ts >= current_time - window
KeptEntries(entries, current_time) ==
    SelectSeq(entries, LAMBDA e : e.ts >= current_time - window_minutes)

\* symbol_clusters after _cleanup_old_entries(prefix, current_time)
CleanedClusters(clusters, prefix, current_time) ==
    IF prefix \in DOMAIN clusters
    THEN LET kept == KeptEntries(clusters[prefix], current_time) IN
         IF kept = <<>>
         THEN [q \in DOMAIN clusters \ {prefix} |-> clusters[q]]
         ELSE [clusters EXCEPT ![prefix] = kept]
    ELSE clusters

\* triggered_clusters after _cleanup_old_entries(prefix, current_time)
CleanedTriggered_keep_flag(clusters, trig, prefix, current_time) == trig

CleanedTriggered(clusters, trig, prefix, current_time) ==
    IF prefix \in DOMAIN clusters
       /\ Len(KeptEntries(clusters[prefix], current_time)) < threshold
    THEN trig \ {prefix}
    ELSE trig

\* self.symbol_clusters[prefix].append(...) on the defaultdict
AppendEntry(clusters, prefix, entry) ==
    [q \in DOMAIN clusters \cup {prefix} |->
        IF q = prefix
        THEN (IF prefix \in DOMAIN clusters
              THEN Append(clusters[prefix], entry) ELSE <<entry>>)
        ELSE clusters[q]]

AddrsOf(entries) == [i \in DOMAIN entries |-> entries[i].addr]

\* the threshold test of add_token: len(cluster_tokens) >= self.threshold
ReachedThreshold_strict(entries) == Len(entries) > threshold

ReachedThreshold(entries) == Len(entries) >= threshold

\* the value returned by add_token once the entry has been appended
AddResult(entries, trig, prefix, token_address) ==
    IF ReachedThreshold(entries)
    THEN IF prefix \notin trig
         THEN [is_hot |-> TRUE, tokens |-> AddrsOf(entries)]
         ELSE [is_hot |-> TRUE, tokens |-> <<token_address>>]
    ELSE [is_hot |-> FALSE, tokens |-> <<>>]

TrendInit ==
    /\ symbol_clusters = <<>>
    /\ triggered_clusters = {}
    /\ trend_now = 0
    /\ last_add = [n |-> 0, called |-> FALSE]

\* len(self.symbol_clusters[prefix]) on the defaultdict
BucketLen(clusters, prefix) ==
    IF prefix \in DOMAIN clusters THEN Len(clusters[prefix]) ELSE 0

\* add_token(token_address, symbol)
AddTokenCall(token_address) ==
    LET symbol == TokenSymbol[token_address] IN
    /\ last_add.n < MaxAdds
    /\ IF TooShort(symbol)
       THEN /\ last_add' = [n |-> last_add.n + 1, called |-> TRUE,
                            addr |-> token_address, prefix |-> NoPrefix,
                            is_hot |-> FALSE, tokens |-> <<>>,
                            was_triggered |-> FALSE, before |-> 0,
                            kept |-> 0]
            /\ UNCHANGED <<symbol_clusters, triggered_clusters>>
       ELSE LET prefix == PrefixOf(symbol)
                cleaned == CleanedClusters(symbol_clusters, prefix, trend_now)
                trig1 == CleanedTriggered(symbol_clusters, triggered_clusters,
                                          prefix, trend_now)
                added == AppendEntry(cleaned, prefix,
                            [ts |-> trend_now, addr |-> token_address,
                             sym |-> symbol])
                res == AddResult(added[prefix], trig1, prefix, token_address)
            IN
            /\ symbol_clusters' = added
            /\ triggered_clusters' =
                 IF ReachedThreshold(added[prefix]) THEN trig1 \cup {prefix}
                 ELSE trig1
            /\ last_add' = [n |-> last_add.n + 1, called |-> TRUE,
                            addr |-> token_address, prefix |-> prefix,
                            is_hot |-> res.is_hot, tokens |-> res.tokens,
                            was_triggered |-> prefix \in triggered_clusters,
                            before |-> BucketLen(symbol_clusters, prefix),
                            kept |-> BucketLen(cleaned, prefix)]
    /\ UNCHANGED trend_now

\* add_token called on its own
AddToken(token_address) == AddTokenCall(token_address) /\ UNCHANGED NotTrend

\* the clock advances by one minute
TrendTick ==
    /\ trend_now < MaxTrendTime
    /\ trend_now' = trend_now + 1
    /\ UNCHANGED <<symbol_clusters, triggered_clusters, last_add, NotTrend>>

\* reset_daily
TrendReset ==
    /\ symbol_clusters # <<>>
    /\ symbol_clusters' = <<>>
    /\ triggered_clusters' = {}
    /\ last_add' = [n |-> last_add.n, called |-> FALSE]
    /\ UNCHANGED <<trend_now, NotTrend>>

\* ------------------------------------------------------------------------
\* TradingConfig
\* ------------------------------------------------------------------------
\* the flags as the live bot is run: real trading with the cluster strategy
LiveTrading ==
    /\ enable_trading = TRUE
    /\ enable_backtest = FALSE
    /\ trend_tracker_on = TRUE

\* every combination of the flags of TradingConfig
AnyConfig ==
    /\ enable_trading \in BOOLEAN
    /\ enable_backtest \in BOOLEAN
    /\ trend_tracker_on \in BOOLEAN

SimulatedTx_always_mock(backtest) == "mock"

\* what buy_token and sell_token return when ENABLE_TRADING is off: a mock
\* transaction id in backtest mode, None otherwise
SimulatedTx(backtest) == IF backtest THEN "mock" ELSE "none"

\* the values `if tx_hash:` can see after buy_token or sell_token returned
TxOutcomes ==
    IF enable_trading THEN BOOLEAN
    ELSE {SimulatedTx(enable_backtest) # "none"}

\* ------------------------------------------------------------------------
\* RiskManager
\* ------------------------------------------------------------------------
\* TradingConfig limits (environment-configurable); amounts in milli-BNB
max_daily_trades == 2
max_daily_investment == 40
max_concurrent_positions == 2
cluster_buy_amount == 15

MaxDay == 1

\* _reset_daily_if_needed
ResetDailyIfNeeded(rm, date) ==
    IF date > rm.last_reset_date
    THEN [rm EXCEPT !.daily_trades = 0, !.daily_investment = 0,
                    !.last_reset_date = date]
    ELSE rm

\* the three ceilings tested by can_buy, after the daily reset
CanBuy(rm, amount_bnb) ==
    /\ ~(rm.daily_trades >= max_daily_trades)
    /\ ~(rm.daily_investment + amount_bnb > max_daily_investment)
    /\ ~(Len(rm.active_positions) >= max_concurrent_positions)

\* record_buy
RecordBuy(rm, date, token_address, amount_bnb) ==
    LET r1 == ResetDailyIfNeeded(rm, date) IN
    [r1 EXCEPT !.daily_trades = @ + 1,
               !.daily_investment = @ + amount_bnb,
               !.active_positions = Append(@, token_address)]

\* list.remove(x): drops the first occurrence
RemoveFirst(list, x) ==
    IF \E i \in DOMAIN list : list[i] = x
    THEN LET i == CHOOSE i \in DOMAIN list :
                    list[i] = x /\ \A j \in 1..(i - 1) : list[j] # x
         IN SubSeq(list, 1, i - 1) \o SubSeq(list, i + 1, Len(list))
    ELSE list

RecordSell_keeps_slot(rm, token_address) == rm

\* record_sell(token_address, is_complete=True)
RecordSell(rm, token_address) ==
    [rm EXCEPT !.active_positions = RemoveFirst(@, token_address)]

\* ------------------------------------------------------------------------
\* PositionTracker
\* ------------------------------------------------------------------------
Tokens == {"t1", "t2"}
\* every address a buy task can be created for
Addresses == Tokens \cup TrendTokens

\* prices of trade events (BNB per token, model unit)
Prices == {1, 3, 6}

MaxClock == 2
MaxBuyTasks == 2
MaxSells == 2

\* token_amount_wei = int(bnb_invested / price * 1e18), in model units
AmountScale == 4
AmountFor(price) == (cluster_buy_amount * AmountScale) \div price

\* strategy parameters read by PositionTracker.__init__; hold times in ticks
DefaultCfg ==
    [ take_profit_pct |-> 200, take_profit_sell_pct |-> 90,
      stop_loss_pct |-> -50, max_hold_time |-> 1, keep_moonshot |-> TRUE,
      moonshot_profit_pct |-> 500, moonshot_stop_loss_pct |-> -30,
      moonshot_max_hold |-> 2 ]

\* a configuration whose stop-loss threshold lies above its take-profit
\* threshold, so that one gain can meet both
OverlapCfg == [DefaultCfg EXCEPT !.stop_loss_pct = 300]

NoPrice == 0
NoObj == [status |-> "none"]
NoOp == [kind |-> "none"]

ObjIds == 1..(Cardinality(Tokens) + MaxSells + 1)

\* ---- the positions dict (insertion-ordered) -----------------------------
HasKey(pos, t) == \E i \in DOMAIN pos : pos[i].k = t
Lookup(pos, t) == pos[CHOOSE i \in DOMAIN pos : pos[i].k = t].v
DictSet(pos, t, id) ==
    IF HasKey(pos, t)
    THEN [i \in DOMAIN pos |-> IF pos[i].k = t THEN [k |-> t, v |-> id] ELSE pos[i]]
    ELSE Append(pos, [k |-> t, v |-> id])
DictDel(pos, t) == SelectSeq(pos, LAMBDA e : e.k # t)
KeyList(pos) == [i \in DOMAIN pos |-> pos[i].k]

\* ---- object identity ------------------------------------------------------
Referenced(pos, ops) ==
    {pos[i].v : i \in DOMAIN pos} \cup {ops[i].obj : i \in DOMAIN ops}

\* the object ids in use, in the order in which the map and then the
\* suspended coroutines refer to them
RECURSIVE Dedupe(_)
Dedupe(list) ==
    IF list = <<>> THEN <<>>
    ELSE LET front == Dedupe(SubSeq(list, 1, Len(list) - 1))
             x == list[Len(list)]
         IN IF x \in Range(front) THEN front ELSE Append(front, x)

RefOrder(pos, ops) ==
    Dedupe([i \in DOMAIN pos |-> pos[i].v] \o [i \in DOMAIN ops |-> ops[i].obj])

IndexOf(list, x) == CHOOSE i \in DOMAIN list : list[i] = x

\* dicts no longer referenced by the map or by a suspended coroutine are
\* gone; the remaining ones are numbered in reference order (an object id
\* is only an identity)
Collect(h, pos, ops) ==
    LET order == RefOrder(pos, ops) IN
    [i \in ObjIds |-> IF i \in DOMAIN order THEN h[order[i]] ELSE NoObj]

RenamePos(pos, ops0) ==
    LET order == RefOrder(pos, ops0) IN
    [i \in DOMAIN pos |-> [k |-> pos[i].k, v |-> IndexOf(order, pos[i].v)]]

RenameOps(pos0, ops) ==
    LET order == RefOrder(pos0, ops) IN
    [i \in DOMAIN ops |-> [ops[i] EXCEPT !.obj = IndexOf(order, ops[i].obj)]]

\* the tracker's map, suspended sells and position dicts after a step
Commit(pos, ops, h) ==
    /\ positions' = RenamePos(pos, ops)
    /\ sells' = RenameOps(pos, ops)
    /\ objs' = Collect(h, pos, ops)

FreeId(h) == CHOOSE i \in ObjIds :
                 h[i] = NoObj /\ \A j \in 1..(i - 1) : h[j] # NoObj

\* the dict built by add_position
NewPosition(token_address, entry_price, token_amount, t_now) ==
    [ token |-> token_address, entry_price |-> entry_price,
      total_amount |-> token_amount, remaining_amount |-> token_amount,
      buy_time |-> t_now, status |-> "holding",
      peak_price |-> entry_price, last_price |-> NoPrice ]

\* pnl_pct >= pct and pnl_pct <= pct, for
\* pnl_pct = (current_price - entry_price) / entry_price * 100, entry_price > 0
GainAtLeast(current_price, entry_price, pct) ==
    (current_price - entry_price) * 100 >= pct * entry_price
GainAtMost(current_price, entry_price, pct) ==
    (current_price - entry_price) * 100 <= pct * entry_price

\* int(x) of a quotient: truncation toward zero
TruncDiv(a, b) == IF a >= 0 THEN a \div b ELSE -((-a) \div b)

\* the branch taken by _check_initial_position
InitialExit(c, pos, current_price, t_now) ==
    IF GainAtLeast(current_price, pos.entry_price, c.take_profit_pct)
    THEN "take_profit"
    ELSE IF GainAtMost(current_price, pos.entry_price, c.stop_loss_pct)
    THEN "stop_loss"
    ELSE IF t_now - pos.buy_time > c.max_hold_time
    THEN "time_stop"
    ELSE "none"

\* the exit conditions of _check_moonshot_position, evaluated after the
\* peak update; each of them calls self._sell_remaining, which
\* PositionTracker does not define, so the call raises AttributeError
MoonshotExit(c, pos, current_price, t_now) ==
    \/ GainAtLeast(current_price, pos.entry_price, c.moonshot_profit_pct)
    \/ GainAtMost(current_price, pos.peak_price, c.moonshot_stop_loss_pct)
    \/ t_now - pos.buy_time > c.moonshot_max_hold

\* sell_amount of _sell_partial: int(remaining_amount * sell_ratio)
PartialAmount(c, pos) ==
    TruncDiv(pos.remaining_amount * c.take_profit_sell_pct, 100)

SellOp(kind, id, token_address, amount, price, caller) ==
    [ kind |-> kind, obj |-> id, token |-> token_address,
      sell_amount |-> amount, price |-> price, caller |-> caller ]

PeriodicIdle == [pc |-> "sleep", todo |-> <<>>, now |-> 0]
\* close_all has not been called; book, sold and failed are the history of
\* its pass: the positions it found, the sells it submitted and the tokens
\* whose sell returned no transaction id
LiquidationIdle == [pc |-> "running", todo |-> <<>>, book |-> <<>>,
                    sold |-> {}, failed |-> {}]
NoSell == [kind |-> "none", purged |-> {}]

TradeInitWith(c) ==
    /\ cfg = c
    /\ today = 0
    /\ clock = 0
    /\ risk_manager = [ daily_trades |-> 0, daily_investment |-> 0,
                        last_reset_date |-> 0, active_positions |-> <<>> ]
    /\ positions = <<>>
    /\ objs = [i \in ObjIds |-> NoObj]
    /\ buy_tasks = [t \in Addresses |-> 0]
    /\ sells = <<>>
    /\ periodic = PeriodicIdle
    /\ last_sell = NoSell
    /\ liquidation = LiquidationIdle

TradeInit == TradeInitWith(DefaultCfg)

\* ---- environment ----------------------------------------------------------
TickTo(bound) ==
    /\ clock < bound
    /\ clock' = clock + 1
    /\ last_sell' = NoSell
    /\ UNCHANGED <<cfg, today, risk_manager, positions, objs, buy_tasks,
                   sells, periodic, NotTrade>>

Tick == TickTo(MaxClock)

DayRoll ==
    /\ today < MaxDay
    /\ today' = today + 1
    /\ last_sell' = NoSell
    /\ UNCHANGED <<cfg, clock, risk_manager, positions, objs, buy_tasks,
                   sells, periodic, NotTrade>>

\* ---- TradingCoordinator ---------------------------------------------------
RECURSIVE Spawned(_, _)
\* the loop of _handle_hot_cluster: the tokens for which can_buy answered
\* ok and a task was created; nothing is recorded between two iterations
Spawned(cluster_tokens, rm) ==
    IF cluster_tokens = <<>> THEN <<>>
    ELSE IF CanBuy(rm, cluster_buy_amount)
         THEN <<Head(cluster_tokens)>> \o Spawned(Tail(cluster_tokens), rm)
         ELSE Spawned(Tail(cluster_tokens), rm)

CountIn(list, x) == Cardinality({i \in DOMAIN list : list[i] = x})
TaskCount(tasks) ==
    LET RECURSIVE Sum(_)
        Sum(S) == IF S = {} THEN 0
                  ELSE LET x == CHOOSE x \in S : TRUE IN tasks[x] + Sum(S \ {x})
    IN Sum(Addresses)

\* _handle_hot_cluster(cluster_tokens, _), with at most max_tasks pending
\* tasks of _execute_buy_by_address
HandleHotClusterCall(cluster_tokens, max_tasks) ==
    LET rm1 == ResetDailyIfNeeded(risk_manager, today)
        new == Spawned(cluster_tokens, rm1)
    IN
    /\ TaskCount(buy_tasks) + Len(new) <= max_tasks
    /\ risk_manager' = rm1
    /\ buy_tasks' = [t \in Addresses |-> buy_tasks[t] + CountIn(new, t)]
    /\ last_sell' = NoSell
    /\ UNCHANGED <<cfg, today, clock, positions, objs, sells, periodic>>

\* a hot signal for cluster_tokens reaches _handle_hot_cluster
HandleHotCluster(cluster_tokens) ==
    HandleHotClusterCall(cluster_tokens, MaxBuyTasks) /\ UNCHANGED NotTrade

\* _execute_buy_by_address resumes after buy_token: tx_hash or None
BuyReturn(token_address, ok) ==
    /\ buy_tasks[token_address] > 0
    /\ ok \in TxOutcomes
    /\ buy_tasks' = [buy_tasks EXCEPT ![token_address] = @ - 1]
    /\ IF ok
       THEN LET id == FreeId(objs)
                h1 == [objs EXCEPT ![id] =
                          NewPosition(token_address, 0, 0, clock)]
            IN
            /\ risk_manager' = RecordBuy(risk_manager, today, token_address,
                                         cluster_buy_amount)
            /\ Commit(DictSet(positions, token_address, id), sells, h1)
       ELSE UNCHANGED <<risk_manager, positions, objs, sells>>
    /\ last_sell' = NoSell
    /\ UNCHANGED <<cfg, today, clock, periodic, NotTrade>>

\* ---- PositionTracker.on_price_update ---------------------------------------
\* _sell_all up to its await: a zero amount drops the key, else a sell is
\* submitted
SellAllStart(h, token_address, id, price, caller) ==
    IF h[id].remaining_amount <= 0
    THEN Commit(DictDel(positions, token_address), sells, h)
    ELSE /\ Len(sells) < MaxSells
         /\ Commit(positions,
                   Append(sells, SellOp("all", id, token_address,
                                        h[id].remaining_amount, price, caller)),
                   h)

\* _sell_partial up to its await
SellPartialStart(h, token_address, id, price) ==
    IF PartialAmount(cfg, h[id]) <= 0
    THEN Commit(positions, sells, h)
    ELSE /\ Len(sells) < MaxSells
         /\ Commit(positions,
                   Append(sells, SellOp("partial", id, token_address,
                                        PartialAmount(cfg, h[id]), price,
                                        "price")),
                   h)

\* _check_initial_position
CheckInitial(h, token_address, id, current_price) ==
    LET exit == InitialExit(cfg, h[id], current_price, clock) IN
    IF exit = "take_profit"
    THEN SellPartialStart(h, token_address, id, current_price)
    ELSE IF exit \in {"stop_loss", "time_stop"}
    THEN SellAllStart(h, token_address, id, current_price, "price")
    ELSE Commit(positions, sells, h)

\* _check_moonshot_position: the peak is raised; a met exit condition ends
\* in AttributeError, which the coordinator's handler logs
CheckMoonshot(h, token_address, id, current_price) ==
    Commit(positions, sells,
           [h EXCEPT ![id].peak_price = Max2(@, current_price)])

\* on_price_update(token_address, current_price)
PriceUpdate(token_address, current_price) ==
    IF ~HasKey(positions, token_address)
    THEN UNCHANGED <<positions, objs, sells>>
    ELSE LET id == Lookup(positions, token_address)
             h1 == [objs EXCEPT ![id].last_price = current_price]
         IN
         IF h1[id].entry_price = 0
         THEN Commit(positions, sells, h1)
         ELSE IF h1[id].status = "holding"
         THEN CheckInitial(h1, token_address, id, current_price)
         ELSE IF h1[id].status = "partial_sold" /\ cfg.keep_moonshot
         THEN CheckMoonshot(h1, token_address, id, current_price)
         ELSE Commit(positions, sells, h1)

\* on_token_sale: a TokenSale event with token_amount > 0
OnTokenSale(token_address, price) ==
    /\ PriceUpdate(token_address, price)
    /\ last_sell' = NoSell
    /\ UNCHANGED <<cfg, today, clock, risk_manager, buy_tasks, periodic,
                   NotTrade>>

\* on_token_purchase: the first purchase seen for an unfilled position
\* backfills it through add_position, any other one is a price update
OnTokenPurchase(token_address, price) ==
    /\ IF HasKey(positions, token_address)
          /\ objs[Lookup(positions, token_address)].entry_price = 0
       THEN LET old == Lookup(positions, token_address)
                id == FreeId(objs)
                h1 == [objs EXCEPT ![old].entry_price = price,
                                   ![id] = NewPosition(token_address, price,
                                               AmountFor(price), clock)]
            IN
            Commit(DictSet(positions, token_address, id), sells, h1)
       ELSE PriceUpdate(token_address, price)
    /\ last_sell' = NoSell
    /\ UNCHANGED <<cfg, today, clock, risk_manager, buy_tasks, periodic,
                   NotTrade>>

\* ---- PositionTracker.run_periodic_check -------------------------------------
\* history of a removal of a never-filled position: the risk manager's
\* fields as they were when the loop reached the position
Purge(t, rm) ==
    [token |-> t, slots |-> CountIn(rm.active_positions, t),
     trades |-> rm.daily_trades, investment |-> rm.daily_investment]

RECURSIVE PeriodicLoop(_, _, _, _, _)
\* the for loop over the snapshot of keys, run until it awaits a sell or ends
PeriodicLoop(todo, pos, rm, h, now) ==
    IF todo = <<>>
    THEN [positions |-> pos, risk |-> rm, todo |-> <<>>, op |-> NoOp,
          purged |-> {}]
    ELSE LET t == Head(todo) IN
         IF ~HasKey(pos, t)
         THEN PeriodicLoop(Tail(todo), pos, rm, h, now)
         ELSE LET id == Lookup(pos, t)
                  p == h[id]
              IN
              IF now - p.buy_time > cfg.max_hold_time
              THEN IF p.entry_price = 0
                   THEN LET r == PeriodicLoop(Tail(todo), DictDel(pos, t),
                                              RecordSell(rm, t), h, now)
                        IN [r EXCEPT !.purged = @ \cup {Purge(t, rm)}]
                   ELSE IF p.remaining_amount <= 0
                   THEN PeriodicLoop(Tail(todo), DictDel(pos, t), rm, h, now)
                   ELSE [positions |-> pos, risk |-> rm, todo |-> Tail(todo),
                         op |-> SellOp("all", id, t, p.remaining_amount,
                                       IF p.last_price # NoPrice
                                       THEN p.last_price ELSE p.entry_price,
                                       "periodic"),
                         purged |-> {}]
              ELSE PeriodicLoop(Tail(todo), pos, rm, h, now)

\* the effect of a run of the loop on the tracker
PeriodicResume(todo, pos, rm, h, ops, now) ==
    LET r == PeriodicLoop(todo, pos, rm, h, now) IN
    /\ risk_manager' = r.risk
    /\ IF r.op = NoOp
       THEN /\ Commit(r.positions, ops, h)
            /\ periodic' = PeriodicIdle
       ELSE /\ Len(ops) < MaxSells
            /\ Commit(r.positions, Append(ops, r.op), h)
            /\ periodic' = [pc |-> "selling", todo |-> r.todo, now |-> now]

\* one iteration of the while loop starts (the sleep has ended)
PeriodicStart ==
    /\ periodic.pc = "sleep"
    /\ positions # <<>>
    /\ PeriodicResume(KeyList(positions), positions, risk_manager, objs,
                      sells, clock)
    /\ last_sell' = [NoSell EXCEPT !.purged =
                        PeriodicLoop(KeyList(positions), positions,
                                     risk_manager, objs, clock).purged]
    /\ UNCHANGED <<cfg, today, clock, buy_tasks, NotTrade>>

\* ---- PositionTracker.close_all -------------------------------------------
\* price = pos.get('last_price') or pos.get('entry_price', 0)
KnownPrice(p) == IF p.last_price # NoPrice THEN p.last_price ELSE p.entry_price

RECURSIVE CloseAllLoop(_, _, _, _)
\* the for loop over the snapshot of keys, run until it awaits a sell, ends,
\* or is left by the KeyError of self.positions[addr]
CloseAllLoop(todo, pos, rm, h) ==
    IF todo = <<>>
    THEN [positions |-> pos, risk |-> rm, todo |-> <<>>, op |-> NoOp]
    ELSE LET t == Head(todo) IN
         IF ~HasKey(pos, t)
         THEN [positions |-> pos, risk |-> rm, todo |-> <<>>, op |-> NoOp]
         ELSE LET id == Lookup(pos, t)
                  p == h[id]
              IN
              IF KnownPrice(p) > 0
              THEN IF p.remaining_amount <= 0
                   THEN CloseAllLoop(Tail(todo), DictDel(pos, t), rm, h)
                   ELSE [positions |-> pos, risk |-> rm, todo |-> Tail(todo),
                         op |-> SellOp("all", id, t, p.remaining_amount,
                                       KnownPrice(p), "close_all")]
              ELSE CloseAllLoop(Tail(todo), DictDel(pos, t),
                                RecordSell(rm, t), h)

\* the effect of a run of the loop on the tracker
CloseAllResume(todo, pos, rm, h, ops, liq) ==
    LET r == CloseAllLoop(todo, pos, rm, h) IN
    /\ risk_manager' = r.risk
    /\ IF r.op = NoOp
       THEN /\ Commit(r.positions, ops, h)
            /\ liquidation' = [liq EXCEPT !.pc = "done", !.todo = <<>>]
       ELSE /\ Len(ops) < MaxSells
            /\ Commit(r.positions, Append(ops, r.op), h)
            /\ liquidation' =
                 [liq EXCEPT !.pc = "selling", !.todo = r.todo,
                             !.sold = @ \cup {[token |-> r.op.token,
                                               amount |-> r.op.sell_amount,
                                               price |-> r.op.price]}]

\* what close_all finds for each key of the map when it is called
Book ==
    [i \in DOMAIN positions |->
        LET p == objs[positions[i].v] IN
        [token |-> positions[i].k, entry_price |-> p.entry_price,
         price |-> KnownPrice(p), remaining |-> p.remaining_amount,
         slots |-> CountIn(risk_manager.active_positions, positions[i].k)]]

\* shutdown(): the monitoring tasks have ended with no buy and no sell in
\* flight; close_all runs before ws_manager.disconnect()
Shutdown ==
    /\ liquidation.pc = "running"
    /\ sells = <<>>
    /\ \A t \in Tokens : buy_tasks[t] = 0
    /\ periodic.pc = "sleep"
    /\ CloseAllResume(KeyList(positions), positions, risk_manager, objs,
                      sells, [liquidation EXCEPT !.book = Book])
    /\ last_sell' = NoSell
    /\ UNCHANGED <<cfg, today, clock, buy_tasks, periodic, listenerVars,
                   rangeVars, trendVars, nonceVars, filterVars, pollVars, configVars, wsVars, winding_down>>

\* ---- a sell returns ---------------------------------------------------------
RemoveAt(list, i) == SubSeq(list, 1, i - 1) \o SubSeq(list, i + 1, Len(list))

\* the position dict after the success branch of _sell_partial
AfterPartial(pos, op) ==
    [pos EXCEPT !.remaining_amount = @ - op.sell_amount,
                !.status = "partial_sold",
                !.peak_price = op.price]

\* the position dict after the success branch of _sell_all
AfterSellAll(pos) ==
    [pos EXCEPT !.status = "closed", !.remaining_amount = 0]

\* the position dict once sell_token has returned: `if tx_hash:` guards
\* every write of both functions
SellResult_ignores_failure(pos, op, ok) ==
    IF op.kind = "partial" THEN AfterPartial(pos, op) ELSE AfterSellAll(pos)

SellResult(pos, op, ok) ==
    IF ~ok THEN pos
    ELSE IF op.kind = "partial" THEN AfterPartial(pos, op)
    ELSE AfterSellAll(pos)

\* sell_token returns None when no transaction was sent and when
\* _wait_for_tx returned False, which it does for a reverted receipt and
\* for a wait that timed out or raised; TRUE marks the timed-out wait
WaitOutcomes(ok) == IF ok THEN {FALSE} ELSE BOOLEAN

\* _sell_partial / _sell_all resume after sell_token: tx_hash or None
SellReturn(i, ok) ==
    /\ i \in DOMAIN sells
    /\ ok \in TxOutcomes
    /\ LET op == sells[i]
           ops == RemoveAt(sells, i)
           h1 == [objs EXCEPT ![op.obj] = SellResult(@, op, ok)]
           closing == ok /\ op.kind = "all"
           rm1 == IF closing THEN RecordSell(risk_manager, op.token)
                  ELSE risk_manager
           \* del self.positions[token_address] raises KeyError
           key_error == closing /\ ~HasKey(positions, op.token)
           pos1 == IF closing THEN DictDel(positions, op.token) ELSE positions
       IN
       /\ \E timed_out \in WaitOutcomes(ok) :
          last_sell' = [kind |-> op.kind, token |-> op.token, ok |-> ok,
                        timed_out |-> timed_out,
                        price |-> op.price,
                        was |-> objs[op.obj].status,
                        now |-> h1[op.obj].status,
                        mutated |-> h1[op.obj] # objs[op.obj],
                        total |-> h1[op.obj].total_amount,
                        remaining |-> h1[op.obj].remaining_amount,
                        peak |-> h1[op.obj].peak_price,
                        in_map |-> HasKey(positions, op.token),
                        slots |-> CountIn(risk_manager.active_positions,
                                          op.token),
                        purged |-> IF op.caller = "periodic" /\ ~key_error
                                   THEN PeriodicLoop(periodic.todo, pos1, rm1,
                                                     h1, periodic.now).purged
                                   ELSE {}]
       /\ IF op.caller = "periodic" /\ ~key_error
          THEN /\ PeriodicResume(periodic.todo, pos1, rm1, h1, ops, periodic.now)
               /\ UNCHANGED liquidation
          ELSE IF op.caller = "close_all"
          THEN /\ CloseAllResume(IF key_error THEN <<>> ELSE liquidation.todo,
                                 pos1, rm1, h1, ops,
                                 IF ok THEN liquidation
                                 ELSE [liquidation EXCEPT
                                          !.failed = @ \cup {op.token}])
               /\ UNCHANGED periodic
          ELSE /\ Commit(pos1, ops, h1)
               /\ risk_manager' = rm1
               /\ periodic' = IF op.caller = "periodic" THEN PeriodicIdle
                              ELSE periodic
               /\ UNCHANGED liquidation
    /\ UNCHANGED <<cfg, today, clock, buy_tasks, listenerVars, rangeVars,
                   trendVars, nonceVars, filterVars, pollVars, configVars, wsVars, winding_down>>

\* ------------------------------------------------------------------------
\* TradeExecutor: nonce allocation and submission (trader.py:139-148, 232-363)
\* ------------------------------------------------------------------------
NonceTasks == 1..2
MaxStarts == 3
NoNonce == -1
NoTask == 0
IdleTask == [kind |-> "none", pc |-> "idle", approving |-> FALSE,
             nonce |-> NoNonce, approve_nonce |-> NoNonce]

NonceInit ==
    /\ local_nonce = NoNonce
    /\ nonce_lock = NoTask
    /\ chain_count = 0
    /\ submitted = <<>>
    /\ trader_tasks = [t \in NonceTasks |-> IdleTask]
    /\ starts = 0
    /\ simulated = {}
    /\ winding_down = FALSE

\* buy_token or sell_token with ENABLE_TRADING off: the call returns at once
Simulate(kind) ==
    /\ simulated' = simulated \cup
                       {[kind |-> kind, tx |-> SimulatedTx(enable_backtest)]}
    /\ UNCHANGED trader_tasks

\* the coroutine returns to its caller
Returned(t) == [trader_tasks EXCEPT ![t] = IdleTask]

\* an exception propagates out of the try body: buy_token's handler resets
\* the counter under the lock (297); an exception of the nested approval
\* in buy_token is caught at 272 and sell_token's handler (340) only return
Raised(t) ==
    IF trader_tasks[t].kind = "buy" /\ ~trader_tasks[t].approving
    THEN [trader_tasks EXCEPT ![t].pc = "reset"]
    ELSE Returned(t)

\* buy_token is called: the gas price is read unless a fresh one is cached
StartBuy(t) ==
    /\ trader_tasks[t].pc = "idle"
    /\ starts < MaxStarts
    /\ starts' = starts + 1
    /\ IF ~enable_trading
       THEN Simulate("buy")
       ELSE /\ trader_tasks' =
                 [trader_tasks EXCEPT ![t] = [IdleTask EXCEPT !.kind = "buy",
                                                              !.pc = "gas"]]
            /\ UNCHANGED simulated
    /\ UNCHANGED <<local_nonce, nonce_lock, chain_count, submitted, NotNonce>>

\* sell_token is called: it starts with _ensure_approve
StartSell(t) ==
    /\ trader_tasks[t].pc = "idle"
    /\ starts < MaxStarts
    /\ starts' = starts + 1
    /\ IF ~enable_trading
       THEN Simulate("sell")
       ELSE /\ trader_tasks' =
                 [trader_tasks EXCEPT ![t] = [IdleTask EXCEPT !.kind = "sell",
                                                              !.pc = "allowance",
                                                              !.approving = TRUE]]
            /\ UNCHANGED simulated
    /\ UNCHANGED <<local_nonce, nonce_lock, chain_count, submitted, NotNonce>>

\* await w3.eth.gas_price returns or raises (245-246, 309)
GasPrice(t, ok) ==
    /\ trader_tasks[t].pc = "gas"
    /\ trader_tasks' = IF ok THEN [trader_tasks EXCEPT ![t].pc = "nonce"] ELSE Raised(t)
    /\ UNCHANGED <<local_nonce, nonce_lock, chain_count, submitted, starts,
                   simulated, NotNonce>>

\* where a coroutine continues once _ensure_approve has returned
AfterApprove(t) ==
    IF trader_tasks[t].kind = "sell"
    THEN [trader_tasks EXCEPT ![t].pc = "gas", ![t].approving = FALSE]
    ELSE [trader_tasks EXCEPT ![t].pc = "estimate2", ![t].approving = FALSE]

\* _ensure_approve: the allowance call returns enough, too little, or raises
Allowance(t, res) ==
    /\ trader_tasks[t].pc = "allowance"
    /\ trader_tasks' = CASE res = "enough" -> AfterApprove(t)
                  [] res = "low"    -> [trader_tasks EXCEPT ![t].pc = "nonce"]
                  [] OTHER          -> Raised(t)
    /\ UNCHANGED <<local_nonce, nonce_lock, chain_count, submitted, starts,
                   simulated, NotNonce>>

\* `nonce = await self._get_next_nonce()` returns n: the local variable of
\* _ensure_approve (354) or of buy_token / sell_token (248, 311)
GotNonce(t, n) ==
    IF trader_tasks[t].approving
    THEN [trader_tasks EXCEPT ![t].approve_nonce = n, ![t].pc = "approve_send"]
    ELSE [trader_tasks EXCEPT ![t].nonce = n, ![t].pc = "estimate"]

\* _get_next_nonce: the lock is free; with a known counter the allocation
\* completes without suspending, with an unknown one the coroutine suspends
\* in get_transaction_count while it holds the lock
GetNextNonce(t) ==
    /\ trader_tasks[t].pc = "nonce"
    /\ nonce_lock = NoTask
    /\ IF local_nonce = NoNonce
       THEN /\ nonce_lock' = t
            /\ trader_tasks' = [trader_tasks EXCEPT ![t].pc = "read_count"]
            /\ UNCHANGED local_nonce
       ELSE /\ trader_tasks' = GotNonce(t, local_nonce)
            /\ local_nonce' = local_nonce + 1
            /\ UNCHANGED nonce_lock
    /\ UNCHANGED <<chain_count, submitted, starts, simulated,
                   NotNonce>>

\* get_transaction_count returns the mined count, or raises
ReadCount(t, ok) ==
    /\ trader_tasks[t].pc = "read_count"
    /\ nonce_lock' = NoTask
    /\ IF ok
       THEN /\ trader_tasks' = GotNonce(t, chain_count)
            /\ local_nonce' = chain_count + 1
       ELSE /\ trader_tasks' = Raised(t)
            /\ UNCHANGED local_nonce
    /\ UNCHANGED <<chain_count, submitted, starts, simulated,
                   NotNonce>>

\* estimate_gas of the first call: a gas limit, "execution reverted" (with
\* or without "allowance" in the message), or another error
EstimateGas(t, res) ==
    /\ trader_tasks[t].pc = "estimate"
    /\ trader_tasks' =
         CASE res = "ok" -> [trader_tasks EXCEPT ![t].pc = "send"]
           [] res = "reverted" -> Returned(t)
           [] res = "allowance" ->
                IF trader_tasks[t].kind = "buy"
                THEN [trader_tasks EXCEPT ![t].pc = "allowance",
                                   ![t].approving = TRUE]
                ELSE Returned(t)
           [] OTHER ->
                IF trader_tasks[t].kind = "buy"
                THEN [trader_tasks EXCEPT ![t].pc = "send"]
                ELSE [trader_tasks EXCEPT ![t].pc = "estimate2"]
    /\ UNCHANGED <<local_nonce, nonce_lock, chain_count, submitted, starts,
                   simulated, NotNonce>>

\* the second estimate_gas: after the approval in buy_token (270), of
\* saleToken in sell_token (324); a failure returns None
EstimateAgain(t, ok) ==
    /\ trader_tasks[t].pc = "estimate2"
    /\ trader_tasks' = IF ok THEN [trader_tasks EXCEPT ![t].pc = "send"] ELSE Returned(t)
    /\ UNCHANGED <<local_nonce, nonce_lock, chain_count, submitted, starts,
                   simulated, NotNonce>>

\* the node takes a transaction unless its nonce is already mined; whether
\* it takes one that it is offered is the network's choice
NodeAccepts(nonce, ok) == ok /\ nonce >= chain_count

\* _ensure_approve builds and sends the approve transaction (356-361)
ApproveSend(t, ok) ==
    /\ trader_tasks[t].pc = "approve_send"
    /\ IF NodeAccepts(trader_tasks[t].approve_nonce, ok)
       THEN /\ submitted' = Append(submitted,
                                   [kind |-> "approve",
                                    nonce |-> trader_tasks[t].approve_nonce])
            /\ trader_tasks' = AfterApprove(t)
       ELSE /\ trader_tasks' = Raised(t)
            /\ UNCHANGED submitted
    /\ UNCHANGED <<local_nonce, nonce_lock, chain_count, starts, simulated,
                   NotNonce>>

\* build_transaction and send_raw_transaction of the buy or the sell
SendRaw(t, ok) ==
    /\ trader_tasks[t].pc = "send"
    /\ IF NodeAccepts(trader_tasks[t].nonce, ok)
       THEN /\ submitted' = Append(submitted, [kind |-> trader_tasks[t].kind,
                                               nonce |-> trader_tasks[t].nonce])
            /\ trader_tasks' = [trader_tasks EXCEPT ![t].pc = "wait"]
       ELSE /\ trader_tasks' = Raised(t)
            /\ UNCHANGED submitted
    /\ UNCHANGED <<local_nonce, nonce_lock, chain_count, starts, simulated,
                   NotNonce>>

\* _wait_for_tx returns True or False; either way the coroutine returns
WaitForTx(t) ==
    /\ trader_tasks[t].pc = "wait"
    /\ trader_tasks' = Returned(t)
    /\ UNCHANGED <<local_nonce, nonce_lock, chain_count, submitted, starts,
                   simulated, NotNonce>>

\* buy_token's handler: async with self.nonce_lock: self.local_nonce = None
ResetNonce(t) ==
    /\ trader_tasks[t].pc = "reset"
    /\ nonce_lock = NoTask
    /\ local_nonce' = NoNonce
    /\ trader_tasks' = Returned(t)
    /\ UNCHANGED <<nonce_lock, chain_count, submitted, starts, simulated,
                   NotNonce>>

\* the chain mines the pending transaction whose nonce is the next one
Mine ==
    /\ \E i \in DOMAIN submitted : submitted[i].nonce = chain_count
    /\ chain_count' = chain_count + 1
    /\ UNCHANGED <<local_nonce, nonce_lock, submitted, trader_tasks, starts,
                   simulated, NotNonce>>

\* ------------------------------------------------------------------------
\* TradeFilter (filter.py:16-185)
\* ------------------------------------------------------------------------
min_name_length == 2
max_name_length == 4
min_symbol_length == 2
max_symbol_length == 5
min_total_supply == 10
max_total_supply == 100
min_liquidity == 1
min_liquidity_ratio == 4
\* the factor 1e18 of `launch_fee * 1e18`
RatioScale == 100
max_tokens_per_creator_24h == 2
min_creator_token_interval_minutes == 1
\* timedelta(hours=24), in ticks
HistoryWindow == 2
enable_address_check == TRUE

MaxFilterTime == 3
MaxFilterCalls == 3
MaxReputationCalls == 2

\* str.lower() on the characters used by the names and symbols of the model
Lower(ch) ==
    CASE ch = "R" -> "r"
      [] ch = "U" -> "u"
      [] ch = "G" -> "g"
      [] ch = "P" -> "p"
      [] ch = "E" -> "e"
      [] ch = "D" -> "d"
      [] ch = "O" -> "o"
      [] ch = "X" -> "x"
      [] OTHER -> ch

LowerSeq(str) == [i \in DOMAIN str |-> Lower(str[i])]

\* keyword in text
Contains(text, keyword) ==
    \E i \in 1..(Len(text) - Len(keyword) + 1) :
        SubSeq(text, i, i + Len(keyword) - 1) = keyword

\* FILTER_KEYWORDS_BLACKLIST, and the list built from it by __init__
KeywordsConfig == << <<"R", "u", "g">> >>
blacklist_keywords == [i \in DOMAIN KeywordsConfig |-> LowerSeq(KeywordsConfig[i])]

\* the TokenCreate events that can arrive
FilterNames == { <<"a">>, <<"o", "k">>, <<"x", "R", "u", "g">>,
                 <<"l", "o", "n", "g", "x">> }
FilterSymbols == { <<"s">>, <<"o", "k">>, <<"r", "U", "G">>,
                   <<"l", "o", "n", "g", "e", "r">> }
Supplies == {5, 50, 200}
Fees == {0, 1, 4}
Creators == {"c1", "c2"}
TokenInfos ==
    [ token_name : FilterNames, token_symbol : FilterSymbols,
      total_supply : Supplies, launch_fee : Fees, creator : Creators ]

\* outcomes of _check_wallet_reputation: the two suspicious ones, a clean
\* wallet, and an RPC failure ("Check skipped")
Reputations == {"new_wallet", "low_balance", "ok", "rpc_error"}

NoCheck == [stage |-> "none"]

FilterInit ==
    /\ creator_history = [c \in Creators |-> <<>>]
    /\ creator_blacklist = {}
    /\ filter_now = 0
    /\ reputation_calls = <<>>
    /\ filter_calls = 0
    /\ last_check = NoCheck

\* the first keyword of the list found in the name or the symbol, 0 if none
KeywordHit(token_info) ==
    LET hits == {i \in DOMAIN blacklist_keywords :
                    \/ Contains(LowerSeq(token_info.token_name),
                                blacklist_keywords[i])
                    \/ Contains(LowerSeq(token_info.token_symbol),
                                blacklist_keywords[i])}
    IN IF hits = {} THEN 0
       ELSE CHOOSE i \in hits : \A j \in hits : i <= j

\* liquidity_ratio < min_liquidity_ratio for
\* liquidity_ratio = (launch_fee * 1e18) / total_supply, total_supply > 0
LowLiquidityRatio(token_info) ==
    /\ token_info.total_supply > 0
    /\ token_info.launch_fee * RatioScale
         < min_liquidity_ratio * token_info.total_supply

BasicChecks_liquidity_first(token_info) ==
    IF \/ Len(token_info.token_name) < min_name_length
       \/ Len(token_info.token_name) > max_name_length
    THEN "name_length"
    ELSE IF \/ Len(token_info.token_symbol) < min_symbol_length
            \/ Len(token_info.token_symbol) > max_symbol_length
    THEN "symbol_length"
    ELSE IF token_info.launch_fee < min_liquidity
    THEN "liquidity"
    ELSE IF KeywordHit(token_info) # 0
    THEN "keyword"
    ELSE IF token_info.total_supply < min_total_supply
    THEN "supply_low"
    ELSE IF token_info.total_supply > max_total_supply
    THEN "supply_high"
    ELSE IF LowLiquidityRatio(token_info)
    THEN "liquidity_ratio"
    ELSE "passed"

\* checks 1 to 5 of should_buy, on the token alone: the reason of the
\* rejection, or "passed"
BasicChecks(token_info) ==
    IF \/ Len(token_info.token_name) < min_name_length
       \/ Len(token_info.token_name) > max_name_length
    THEN "name_length"
    ELSE IF \/ Len(token_info.token_symbol) < min_symbol_length
            \/ Len(token_info.token_symbol) > max_symbol_length
    THEN "symbol_length"
    ELSE IF KeywordHit(token_info) # 0
    THEN "keyword"
    ELSE IF token_info.total_supply < min_total_supply
    THEN "supply_low"
    ELSE IF token_info.total_supply > max_total_supply
    THEN "supply_high"
    ELSE IF token_info.launch_fee < min_liquidity
    THEN "liquidity"
    ELSE IF LowLiquidityRatio(token_info)
    THEN "liquidity_ratio"
    ELSE "passed"

\* creator_history after _record_creator(creator, token_address)
RecordCreator(history, creator, token_address, now) ==
    [history EXCEPT ![creator] =
        Append(SelectSeq(@, LAMBDA e : e.ts >= now - HistoryWindow),
               [ts |-> now, addr |-> token_address])]

IsBatchCreator(entries) == Len(entries) > max_tokens_per_creator_24h

IsRapidCreator(entries) ==
    /\ Len(entries) >= 2
    /\ entries[Len(entries)].ts - entries[Len(entries) - 1].ts
         < min_creator_token_interval_minutes

\* history of a should_buy call: its argument, what the creator checks saw,
\* and what it returned
Checked(token_info, token_address, was_blacklisted, entries, rep, reason) ==
    [stage |-> IF reason = "awaiting" THEN "awaiting" ELSE "returned",
     token |-> token_info, addr |-> token_address,
     was_blacklisted |-> was_blacklisted, entries |-> entries,
     reputation |-> rep,
     ok |-> reason = "passed", reason |-> reason]

Blacklisted_never(creator) == FALSE

\* `creator in self.creator_blacklist`, the first of the creator checks
Blacklisted(creator) == creator \in creator_blacklist

\* should_buy(token_info) up to its return or to the await of the
\* reputation check; the token's address is the number of the call
ShouldBuyCall(token_info) ==
    /\ filter_calls < MaxFilterCalls
    /\ filter_calls' = filter_calls + 1
    /\ LET token_address == filter_calls + 1
           creator == token_info.creator
           basic == BasicChecks(token_info)
           was_blacklisted == Blacklisted(creator)
           recorded == RecordCreator(creator_history, creator, token_address,
                                     filter_now)
           Return(entries, reason) ==
               last_check' = Checked(token_info, token_address,
                                     was_blacklisted, entries, "none", reason)
       IN
       IF basic # "passed"
       THEN /\ Return(creator_history[creator], basic)
            /\ UNCHANGED <<creator_history, creator_blacklist,
                           reputation_calls>>
       ELSE IF ~enable_address_check
       THEN /\ Return(creator_history[creator], "passed")
            /\ UNCHANGED <<creator_history, creator_blacklist,
                           reputation_calls>>
       ELSE IF was_blacklisted
       THEN /\ Return(creator_history[creator], "creator_blacklisted")
            /\ UNCHANGED <<creator_history, creator_blacklist,
                           reputation_calls>>
       ELSE /\ creator_history' = recorded
            /\ IF IsRapidCreator(recorded[creator])
               THEN /\ creator_blacklist' = creator_blacklist \cup {creator}
                    /\ Return(recorded[creator], "rapid")
                    /\ UNCHANGED reputation_calls
               ELSE IF IsBatchCreator(recorded[creator])
               THEN /\ creator_blacklist' = creator_blacklist \cup {creator}
                    /\ Return(recorded[creator], "batch")
                    /\ UNCHANGED reputation_calls
               ELSE /\ Len(reputation_calls) < MaxReputationCalls
                    /\ reputation_calls' =
                         Append(reputation_calls,
                                [token |-> token_info, addr |-> token_address,
                                 entries |-> recorded[creator]])
                    /\ Return(recorded[creator], "awaiting")
                    /\ UNCHANGED creator_blacklist
    /\ UNCHANGED filter_now

\* should_buy called on its own
ShouldBuy(token_info) == ShouldBuyCall(token_info) /\ UNCHANGED NotFilter

IsSuspicious_on_error(reputation) == reputation # "ok"

\* is_suspicious of _check_wallet_reputation: a new wallet or a low balance;
\* the except branch returns (False, "Check skipped")
IsSuspicious(reputation) == reputation \in {"new_wallet", "low_balance"}

\* _check_wallet_reputation returns to should_buy
ReputationReturnCall(i, reputation) ==
    /\ i \in DOMAIN reputation_calls
    /\ LET call == reputation_calls[i]
           is_suspicious == IsSuspicious(reputation)
       IN
       /\ reputation_calls' = SubSeq(reputation_calls, 1, i - 1)
                                \o SubSeq(reputation_calls, i + 1,
                                          Len(reputation_calls))
       /\ creator_blacklist' = IF is_suspicious
                               THEN creator_blacklist \cup {call.token.creator}
                               ELSE creator_blacklist
       /\ last_check' = Checked(call.token, call.addr, FALSE, call.entries,
                                reputation,
                                IF is_suspicious THEN "reputation"
                                ELSE "passed")
    /\ UNCHANGED <<creator_history, filter_now, filter_calls>>

\* should_buy resumes on its own
ReputationReturn(i, reputation) ==
    ReputationReturnCall(i, reputation) /\ UNCHANGED NotFilter

\* time passes
FilterTick ==
    /\ filter_now < MaxFilterTime
    /\ filter_now' = filter_now + 1
    /\ last_check' = NoCheck
    /\ UNCHANGED <<creator_history, creator_blacklist, reputation_calls,
                   filter_calls, NotFilter>>

\* ------------------------------------------------------------------------
\* TradingCoordinator.on_token_create (coordinator.py:50-102)
\* ------------------------------------------------------------------------
MaxClusterTasks == 3

\* token_info as on_token_create builds it from a TokenCreate event
TokenInfo(a, n, c) ==
    [ token_address |-> a, token_name |-> n, token_symbol |-> TokenSymbol[a],
      total_supply |-> 50, launch_fee |-> 4, creator |-> c ]

\* the TokenCreate events that can arrive: the tokens of one cluster and an
\* outsider, and one token with a blacklisted keyword in its name
CreateTokens == {"a1", "a2", "a3", "a4"}
CreateEvents ==
    { TokenInfo(a, <<"o", "k">>, c) : a \in CreateTokens, c \in Creators }
        \cup { TokenInfo("a3", <<"x", "R", "u", "g">>, "c1") }

NotCoordinator == <<listenerVars, rangeVars, nonceVars, liquidation, pollVars,
                    configVars, wsVars, winding_down>>

Filtered_never(should_buy) == FALSE

\* `if not should_buy: return`
Filtered(should_buy) == ~should_buy

\* on_token_create once should_buy has returned: add_token and, on a hot
\* signal with a non-empty cluster, _handle_hot_cluster, which runs up to
\* its return without suspending
AfterFilter(should_buy, token_address) ==
    IF Filtered(should_buy) \/ ~trend_tracker_on
    THEN UNCHANGED <<trendVars, tradeVars>>
    ELSE /\ AddTokenCall(token_address)
         /\ IF last_add'.is_hot /\ last_add'.tokens # <<>>
            THEN HandleHotClusterCall(last_add'.tokens, MaxClusterTasks)
            ELSE UNCHANGED tradeVars

\* on_token_create up to its return or to the await inside should_buy
OnTokenCreate(token_info) ==
    /\ ShouldBuyCall(token_info)
    /\ IF last_check'.stage = "returned"
       THEN AfterFilter(last_check'.ok, token_info.token_address)
       ELSE UNCHANGED <<trendVars, tradeVars>>
    /\ UNCHANGED NotCoordinator

\* on_token_create resumes when the reputation check of should_buy returns
OnTokenCreateResume(i, reputation) ==
    /\ ReputationReturnCall(i, reputation)
    /\ AfterFilter(last_check'.ok, reputation_calls[i].token.token_address)
    /\ UNCHANGED NotCoordinator

\* ------------------------------------------------------------------------
\* Properties of the listener
\* ------------------------------------------------------------------------
\* distinct keys delivered strictly between arrivals i and j
KeysBetween(i, j) == {arrivals[k] : k \in (i + 1)..(j - 1)}

\* An eviction of the oldest evict_batch keys leaves the
\* max_cache_size + 1 - evict_batch most recent keys in the cache, so a key
\* followed by at most max_cache_size - evict_batch other keys is within
\* the retention capacity under every reading of that capacity.
WithinRetention(i, j) ==
    Cardinality(KeysBetween(i, j) \ {arrivals[i]}) <= max_cache_size - evict_batch

\* C1: when the same (transactionHash, logIndex) key is delivered twice and
\* the second delivery is within the cache's retention capacity of the
\* first, the handlers are invoked for at most one of the two deliveries.
C1_DedupWithinRetention ==
    \A i \in DOMAIN arrivals : \A j \in DOMAIN arrivals :
        (i < j /\ arrivals[i] = arrivals[j] /\ WithinRetention(i, j))
            => ~(handled[i] /\ handled[j])

BlocksOf(c) == c.from_block..c.to_block

\* number of pending calls and finished leaves whose range holds block b
Covering(b) ==
    Cardinality({i \in DOMAIN leaves : b \in BlocksOf(leaves[i])})
    + Cardinality({i \in DOMAIN calls : b \in BlocksOf(calls[i])})

\* C5: under every pattern of rate-limit responses the ranges that are
\* fetched without being split further partition the requested range:
\* while the recursion runs every block lies in exactly one leaf or pending
\* call, no leaf or call reaches outside the request, and when the
\* recursion has ended every block lies in exactly one leaf.
C5_LeavesPartitionRange ==
    /\ \A b \in range_req[1]..range_req[2] : Covering(b) = 1
    /\ \A i \in DOMAIN leaves :
         /\ leaves[i].from_block <= leaves[i].to_block
         /\ BlocksOf(leaves[i]) \subseteq range_req[1]..range_req[2]
    /\ \A i \in DOMAIN calls :
         BlocksOf(calls[i]) \subseteq range_req[1]..range_req[2]

C5_Witness ==
    /\ calls = <<>>
    /\ Len(leaves) >= 3
    /\ \E i \in DOMAIN leaves : leaves[i].outcome = "skipped"
    /\ \E i \in DOMAIN leaves : leaves[i].outcome = "ok"

RECURSIVE CeilLog2(_)
CeilLog2(n) == IF n <= 1 THEN 0 ELSE 1 + CeilLog2((n + 1) \div 2)

RangeSize == range_req[2] - range_req[1] + 1

\* C6: for a request of N blocks the split depth never exceeds
\* ceil(log2 N), the number of fetches is bounded (at most 2N - 1, so the
\* recursion terminates), a skipped leaf is a single block, and no range is
\* handed to get_logs twice (a rate-limited single block is not retried).
C6_BoundedBisection ==
    /\ \A i \in DOMAIN calls : calls[i].retry_count <= CeilLog2(RangeSize)
    /\ Len(fetches) <= 2 * RangeSize - 1
    /\ \A i \in DOMAIN leaves :
         leaves[i].outcome = "skipped" => leaves[i].from_block = leaves[i].to_block
    /\ \A i \in DOMAIN fetches : \A j \in DOMAIN fetches :
         i # j => fetches[i] # fetches[j]

C6_Witness ==
    /\ RangeSize >= 5
    /\ \E i \in DOMAIN calls : calls[i].retry_count = CeilLog2(RangeSize)
    /\ \E i \in DOMAIN leaves : leaves[i].outcome = "skipped"

\* ------------------------------------------------------------------------
\* Properties of the trend tracker
\* ------------------------------------------------------------------------
\* the bucket of the prefix of the last add_token call, as it is stored
LastBucket == symbol_clusters[last_add.prefix]

\* C10: an add_token call for a symbol of at least prefix_length characters
\* returns not-hot while its bucket holds fewer than threshold entries,
\* returns hot with the addresses of every entry of the bucket on the call
\* that brings the bucket to exactly threshold entries, and returns hot with
\* only the new address when the bucket holds more than threshold entries.
C10_ClusterTrigger ==
    (last_add.called /\ last_add.prefix # NoPrefix) =>
        /\ last_add.prefix \in DOMAIN symbol_clusters
        /\ Len(LastBucket) < threshold =>
              (~last_add.is_hot /\ last_add.tokens = <<>>)
        /\ Len(LastBucket) = threshold =>
              (last_add.is_hot /\ last_add.tokens = AddrsOf(LastBucket))
        /\ Len(LastBucket) > threshold =>
              (last_add.is_hot /\ last_add.tokens = <<last_add.addr>>)

C10_Witness ==
    /\ last_add.called
    /\ last_add.prefix = <<"P", "E", "P", "E">>
    /\ Len(LastBucket) = threshold + 1
    /\ last_add.is_hot
    /\ last_add.tokens = <<last_add.addr>>

\* C11: when the pruning of an add_token call leaves the bucket below the
\* threshold, the triggered flag of the bucket is cleared: the call returns
\* not-hot and leaves the bucket un-flagged unless the new entry brings the
\* bucket to the threshold, in which case it returns hot with the addresses
\* of every entry of the bucket.
C11_RearmAfterPruning ==
    (last_add.called /\ last_add.prefix # NoPrefix
        /\ last_add.kept < threshold) =>
        /\ Len(LastBucket) = last_add.kept + 1
        /\ Len(LastBucket) < threshold =>
              /\ ~last_add.is_hot
              /\ last_add.tokens = <<>>
              /\ last_add.prefix \notin triggered_clusters
        /\ Len(LastBucket) = threshold =>
              /\ last_add.is_hot
              /\ last_add.tokens = AddrsOf(LastBucket)

\* a flagged bucket was pruned below the threshold and the call was not hot
C11_Witness ==
    /\ last_add.called
    /\ last_add.prefix # NoPrefix
    /\ last_add.was_triggered
    /\ last_add.before >= threshold
    /\ last_add.kept < threshold - 1
    /\ ~last_add.is_hot

\* ------------------------------------------------------------------------
\* Properties of the risk manager and the position tracker
\* ------------------------------------------------------------------------
\* C2: the number of entries of RiskManager.active_positions never exceeds
\* max_concurrent_positions.
C2_ConcurrentPositionsCeiling ==
    Len(risk_manager.active_positions) <= max_concurrent_positions

\* C3: within a day the recorded daily investment never exceeds
\* max_daily_investment and the recorded daily trades never exceed
\* max_daily_trades.
C3_DailyCeilings ==
    /\ risk_manager.daily_investment <= max_daily_investment
    /\ risk_manager.daily_trades <= max_daily_trades

LiveObjs == {objs[positions[i].v] : i \in DOMAIN positions}

\* C7: closed is terminal.  No position of the active map has status
\* closed; a sell that closes a position leaves its token out of the active
\* map and releases one risk slot of the token; and a sell that returns for
\* a position that is already closed leaves that position as it was.
C7_ClosedIsTerminal ==
    /\ \A p \in LiveObjs : p.status # "closed"
    /\ (last_sell.kind # "none" /\ last_sell.now = "closed"
           /\ last_sell.was # "closed") =>
          /\ ~HasKey(positions, last_sell.token)
          /\ CountIn(risk_manager.active_positions, last_sell.token)
               = Max2(last_sell.slots - 1, 0)
    /\ (last_sell.kind # "none" /\ last_sell.was = "closed") =>
          ~last_sell.mutated

\* C12: when the sell of a take-profit (partial) exit succeeds, the position
\* is partial_sold, its remaining amount is its original amount minus the
\* take_profit_sell_pct fraction of it, and its peak price is the price of
\* the update.
C12_TakeProfitPartialSell ==
    (last_sell.kind = "partial" /\ last_sell.ok) =>
        /\ last_sell.now = "partial_sold"
        /\ last_sell.remaining =
              last_sell.total
                - TruncDiv(last_sell.total * cfg.take_profit_sell_pct, 100)
        /\ last_sell.peak = last_sell.price

\* the tokens of the single-token position life cycle
PosTokens == {"t1"}

\* the position of t is partial_sold, moonshot keeping is on, and the price
\* meets an exit condition of _check_moonshot_position (against the peak as
\* raised by this price)
MoonshotDue(t, price) ==
    /\ cfg.keep_moonshot
    /\ HasKey(positions, t)
    /\ LET pos == objs[Lookup(positions, t)] IN
       /\ pos.entry_price # 0
       /\ pos.status = "partial_sold"
       /\ pos.remaining_amount > 0
       /\ MoonshotExit(cfg, [pos EXCEPT !.peak_price = Max2(@, price)],
                       price, clock)

\* the step submits a sell of the whole remaining amount of t at the price
SubmitsRemaining(t, price) ==
    /\ Len(sells') = Len(sells) + 1
    /\ \E i \in DOMAIN sells' :
          /\ sells'[i].kind = "all"
          /\ sells'[i].token = t
          /\ sells'[i].price = price
          /\ sells'[i].sell_amount
               = objs[Lookup(positions, t)].remaining_amount

\* a sell of t has just failed and its position is still there to be sold
RetryDue(t) ==
    /\ last_sell.kind # "none"
    /\ ~last_sell.ok
    /\ last_sell.token = t
    /\ HasKey(positions, t)
    /\ objs[Lookup(positions, t)].entry_price # 0
    /\ objs[Lookup(positions, t)].remaining_amount > 0

\* the step submits one more sell, for token t
SubmitsSell(t) ==
    /\ Len(sells') = Len(sells) + 1
    /\ \E i \in DOMAIN sells' : sells'[i].token = t

\* C14: a sell that returns no transaction id leaves the position as it
\* was (same dict contents, still in the active map if it was there) and
\* the risk manager's active set as it was; the next price update that
\* meets an exit rule of a holding position, and the next periodic check of
\* a position past its hold limit, submit a sell again.
C14_FailedSellIsRetried ==
    [][ /\ (last_sell'.kind # "none" /\ ~last_sell'.ok) =>
             /\ ~last_sell'.mutated
             /\ last_sell'.in_map => HasKey(positions', last_sell'.token)
             /\ CountIn(risk_manager'.active_positions, last_sell'.token)
                  = last_sell'.slots
        /\ \A t \in PosTokens :
             LET pos == objs[Lookup(positions, t)] IN
             /\ \A p \in Prices :
                  (RetryDue(t) /\ pos.status = "holding"
                      /\ InitialExit(cfg, pos, p, clock) # "none"
                      /\ PriceUpdate(t, p)) => SubmitsSell(t)
             /\ (RetryDue(t) /\ clock - pos.buy_time > cfg.max_hold_time
                      /\ PeriodicStart) => SubmitsSell(t) ]_vars

\* a sell of a holding position failed and the position is in the map
C14_Witness ==
    /\ last_sell.kind = "all"
    /\ ~last_sell.ok
    /\ last_sell.was = "holding"
    /\ last_sell.in_map
    /\ RetryDue(last_sell.token)

\* C15: after a sell whose confirmation wait timed out, the next evaluation
\* of the position submits no further sell for it.
C15_NoResubmitAfterTimeout ==
    [][ \A t \in PosTokens :
          (last_sell.kind # "none" /\ last_sell.timed_out
              /\ last_sell.token = t) => ~SubmitsSell(t) ]_vars

\* C13: a price update of a partial_sold position that meets the moonshot
\* target, the drawdown limit from the tracked peak or the moonshot hold
\* limit submits a sell of the whole remaining amount, and a successful sell
\* of the whole amount of a partial_sold position leaves it closed and out
\* of the active map.
C13_MoonshotExit ==
    [][ /\ \A t \in PosTokens : \A p \in Prices :
             (MoonshotDue(t, p) /\ PriceUpdate(t, p))
                 => SubmitsRemaining(t, p)
        /\ (last_sell'.kind = "all" /\ last_sell'.ok
               /\ last_sell'.was = "partial_sold") =>
             (last_sell'.now = "closed"
                 /\ ~HasKey(positions', last_sell'.token)) ]_vars

Unfilled(t) ==
    HasKey(positions, t) /\ objs[Lookup(positions, t)].entry_price = 0

\* C8: once only price updates, periodic checks, timeouts and successful
\* sells follow, every open position is eventually closed by a sell and
\* out of the active map.
C8_OpenLeadsToClosed ==
    \A t \in PosTokens :
        (winding_down /\ HasKey(positions, t)) ~>
            (last_sell.kind # "none" /\ last_sell.token = t
                /\ last_sell.now = "closed" /\ ~HasKey(positions, t))

\* C9: a partial (take-profit) sell is never the action taken for a price
\* whose gain over the entry price also meets the stop-loss condition.
C9_StopLossWins ==
    \A i \in DOMAIN sells :
        sells[i].kind = "partial" =>
            ~GainAtMost(sells[i].price, objs[sells[i].obj].entry_price,
                        cfg.stop_loss_pct)

\* C4: no two transactions the node accepted from the wallet carry the
\* same nonce.
C4_UniqueNonces ==
    \A i \in DOMAIN submitted : \A j \in DOMAIN submitted :
        i # j => submitted[i].nonce # submitted[j].nonce

\* a call of buy_token / sell_token leaves through a failing exit: it
\* returns to its caller holding a nonce it allocated and never handed to
\* the node (the transaction's own, or the one of its approval)
FailingExit(t) ==
    /\ trader_tasks[t].pc \notin {"idle", "wait"}
    /\ trader_tasks'[t].pc = "idle"
    /\ \/ trader_tasks[t].nonce # NoNonce
       \/ trader_tasks[t].pc = "approve_send"

\* C16: every failing exit of a submission path (buy, sell, approval) that
\* has allocated a nonce leaves the local counter reset to None, so that no
\* allocated-but-unused nonce stays behind
C16_FailingExitResetsNonce ==
    [][ \A t \in NonceTasks : FailingExit(t) => local_nonce' = NoNonce ]_vars


\* C18: a never-filled position that the periodic check finds older than the
\* hold limit is out of the map afterwards, its risk slot is released, the
\* check submits no sell for it, and the day's trade count and invested
\* amount are what they were.
C18_StalePositionPurged ==
    \A e \in last_sell.purged :
        /\ ~HasKey(positions, e.token)
        /\ CountIn(risk_manager.active_positions, e.token)
             = Max2(e.slots - 1, 0)
        /\ \A i \in DOMAIN sells :
             ~(sells[i].caller = "periodic" /\ sells[i].token = e.token)
        /\ risk_manager.daily_trades = e.trades
        /\ risk_manager.daily_investment = e.investment

\* a never-filled position holding a risk slot has just been purged
C18_Witness ==
    \E e \in last_sell.purged :
        /\ e.slots = 1
        /\ e.trades > 0
        /\ CountIn(risk_manager.active_positions, e.token) = 0

\* C17: when the liquidation pass of the shutdown has ended, every position
\* it found with a filled entry was offered for sale with its whole remaining
\* amount at its known price (last observed, else entry), every never-filled
\* position is out of the map without a sell and with its risk slot
\* released, and the map holds only positions whose sell did not succeed.
C17_ShutdownLiquidation ==
    liquidation.pc = "done" =>
        /\ \A i \in DOMAIN liquidation.book :
             LET b == liquidation.book[i] IN
             IF b.entry_price = 0
             THEN /\ ~HasKey(positions, b.token)
                  /\ \A s \in liquidation.sold : s.token # b.token
                  /\ b.slots > 0 =>
                       CountIn(risk_manager.active_positions, b.token) < b.slots
             ELSE [token |-> b.token, amount |-> b.remaining,
                   price |-> b.price] \in liquidation.sold
        /\ \A t \in Tokens : HasKey(positions, t) => t \in liquidation.failed


\* ------------------------------------------------------------------------
\* Properties of the filter
\* ------------------------------------------------------------------------
CheckOrder ==
    << "name_length", "symbol_length", "keyword", "supply_low", "supply_high",
       "liquidity", "liquidity_ratio", "creator_blacklisted", "rapid", "batch",
       "reputation" >>

\* two characters that differ at most in case
LetterPairs == { {"r", "R"}, {"u", "U"}, {"g", "G"} }
SameLetter(a, b) == a = b \/ {a, b} \in LetterPairs

\* the keyword occurs in the text, whatever the case of either
OccursIgnoringCase(text, keyword) ==
    \E i \in 1..(Len(text) - Len(keyword) + 1) :
        \A k \in 1..Len(keyword) : SameLetter(text[i + k - 1], keyword[k])

\* the check of that name fails for the call c
CheckFails(name, c) ==
    CASE name = "name_length" ->
           Len(c.token.token_name) \notin min_name_length..max_name_length
      [] name = "symbol_length" ->
           Len(c.token.token_symbol) \notin min_symbol_length..max_symbol_length
      [] name = "keyword" ->
           \E k \in DOMAIN KeywordsConfig :
              \/ OccursIgnoringCase(c.token.token_name, KeywordsConfig[k])
              \/ OccursIgnoringCase(c.token.token_symbol, KeywordsConfig[k])
      [] name = "supply_low" -> c.token.total_supply < min_total_supply
      [] name = "supply_high" -> c.token.total_supply > max_total_supply
      [] name = "liquidity" -> c.token.launch_fee < min_liquidity
      [] name = "liquidity_ratio" ->
           c.token.launch_fee * RatioScale
              < min_liquidity_ratio * c.token.total_supply
      [] name = "creator_blacklisted" -> c.was_blacklisted
      [] name = "rapid" ->
           \E i \in 1..(Len(c.entries) - 1) :
              /\ c.entries[i + 1].addr = c.addr
              /\ c.entries[i + 1].ts - c.entries[i].ts
                   < min_creator_token_interval_minutes
      [] name = "batch" -> Len(c.entries) > max_tokens_per_creator_24h
      [] name = "reputation" -> c.reputation \in {"new_wallet", "low_balance"}

FailingChecks(c) == {i \in DOMAIN CheckOrder : CheckFails(CheckOrder[i], c)}

\* C19: a call of should_buy that has returned was rejected with the reason
\* of the first check, in the fixed order, that fails for it, and was
\* accepted only when no check fails; a token matching a blacklisted keyword
\* (and of valid name and symbol length) is rejected for the keyword
\* whatever its liquidity.
C19_FirstFailingCheck ==
    last_check.stage = "returned" =>
        /\ IF FailingChecks(last_check) = {}
           THEN last_check.ok
           ELSE /\ ~last_check.ok
                /\ \E i \in FailingChecks(last_check) :
                     /\ \A j \in FailingChecks(last_check) : i <= j
                     /\ last_check.reason = CheckOrder[i]
        /\ (/\ CheckFails("keyword", last_check)
            /\ ~CheckFails("name_length", last_check)
            /\ ~CheckFails("symbol_length", last_check)) =>
              last_check.reason = "keyword"

\* a token with a blacklisted keyword in another case and a liquidity below
\* the minimum has been rejected
C19_Witness ==
    /\ last_check.stage = "returned"
    /\ CheckFails("keyword", last_check)
    /\ CheckFails("liquidity", last_check)
    /\ last_check.token.token_name = <<"x", "R", "u", "g">>
    /\ last_check.reason = "keyword"


\* C20: once should_buy has run for a token, up to its return or to the
\* reputation check, the creator's history holds an entry for that token,
\* whatever the outcome, and the burst and batch checks saw that entry.
C20_EveryTokenRecorded ==
    (last_check.stage # "none" /\ last_check.reputation = "none") =>
        /\ \E i \in DOMAIN creator_history[last_check.token.creator] :
              creator_history[last_check.token.creator][i]
                 = [ts |-> filter_now, addr |-> last_check.addr]
        /\ last_check.reason \in {"rapid", "batch", "awaiting"} =>
              \E i \in DOMAIN last_check.entries :
                 last_check.entries[i].addr = last_check.addr


\* C21: a should_buy call whose reputation query failed with an error
\* returns acceptance, and its return leaves the creator blacklist as it was.
C21_ReputationErrorAccepts ==
    [][ (last_check'.stage = "returned" /\ last_check'.reputation = "rpc_error")
            => /\ last_check'.ok
               /\ last_check'.reason = "passed"
               /\ creator_blacklist' = creator_blacklist ]_vars

\* a call has returned after a failed reputation query, accepted, and its
\* creator is not blacklisted
C21_Witness ==
    /\ last_check.stage = "returned"
    /\ last_check.reputation = "rpc_error"
    /\ last_check.ok
    /\ last_check.token.creator \notin creator_blacklist


\* C22: for every event that is dispatched, each handler registered for its
\* type is invoked, in registration order, whichever of them raise; the
\* event is counted as processed (the dispatch ends normally), and this also
\* holds for the events that follow one whose handler raised.
C22_HandlerFailureIsolated ==
    last_dispatch.dispatched =>
        /\ [i \in DOMAIN last_dispatch.invoked |->
               last_dispatch.invoked[i].handler]
             = HandlersOf(last_dispatch.event_name)
        /\ events_processed = Cardinality({i \in DOMAIN handled : handled[i]})

\* the first of two handlers raised and the second was invoked, in a dispatch
\* that follows an earlier one with a raising handler
C22_Witness ==
    /\ last_dispatch.dispatched
    /\ last_dispatch.after_raise
    /\ Len(last_dispatch.invoked) = 2
    /\ last_dispatch.invoked[1].raised
    /\ last_dispatch.invoked[2].handler = "on_token_create"


C24_NoBlockDroppedOnError ==
    [][ last_block_processed' # last_block_processed =>
            \A i \in DOMAIN leaves : leaves[i].outcome \in {"ok", "skipped"}
      ]_vars



\* C25: an attempt is between its can_buy and its record_buy exactly while
\* its _execute_buy_by_address task is pending; when one attempt records its
\* buy, no other attempt is inside such a section, i.e. no other can_buy was
\* evaluated since the recording attempt's own can_buy answered ok.
C25_CheckThenRecordAtomic ==
    [][ Len(risk_manager'.active_positions) >
            Len(risk_manager.active_positions)
        => TaskCount(buy_tasks) = 1 ]_vars

\* C26: for one token at most one sell is in progress: no two _sell_partial
\* or _sell_all coroutines of the same token are suspended in sell_token at
\* the same time.
C26_OneSellPerToken ==
    \A i, j \in DOMAIN sells :
        i # j => sells[i].token # sells[j].token

\* C27: a buy is attempted (a task of _execute_buy_by_address is created)
\* only with trend tracking enabled, only in a step in which should_buy
\* returned True for the created token and add_token returned a hot signal
\* for it, and only for an address of that signal; with trend tracking
\* disabled no buy is attempted, whatever should_buy returned.
C27_BuyOnlyOnHotSignal ==
    [][ \A t \in Addresses :
          buy_tasks'[t] > buy_tasks[t] =>
            /\ trend_tracker_on
            /\ last_check' # last_check
            /\ last_check'.stage = "returned"
            /\ last_check'.ok
            /\ last_add'.n = last_add.n + 1
            /\ last_add'.addr = last_check'.token.token_address
            /\ last_add'.is_hot
            /\ \E k \in DOMAIN last_add'.tokens : last_add'.tokens[k] = t
      ]_vars

\* a hot signal for a whole cluster came back for a token that passed the
\* filter, and its buys were attempted
C27_Witness ==
    /\ trend_tracker_on
    /\ last_check.stage = "returned" /\ last_check.ok
    /\ last_add.called /\ last_add.is_hot
    /\ last_add.addr = last_check.token.token_address
    /\ Len(last_add.tokens) >= threshold
    /\ \A k \in DOMAIN last_add.tokens : buy_tasks[last_add.tokens[k]] > 0

\* C28: with ENABLE_TRADING off, buy_token and sell_token never read or
\* allocate a nonce, never take the nonce lock and never submit a
\* transaction; what they return is a mock transaction id exactly when
\* ENABLE_BACKTEST is on, and with ENABLE_BACKTEST off no position is opened.
C28_SimulatedTrading ==
    ~enable_trading =>
        /\ local_nonce = NoNonce
        /\ nonce_lock = NoTask
        /\ submitted = <<>>
        /\ \A t \in NonceTasks : trader_tasks[t] = IdleTask
        /\ \A r \in simulated :
               /\ r.tx \in {"mock", "none"}
               /\ r.tx = "mock" <=> enable_backtest
        /\ ~enable_backtest => positions = <<>>

\* without trading and without backtest, buy_token and sell_token were both
\* called and the buy of a hot signal is under way
C28_Witness ==
    /\ ~enable_trading
    /\ ~enable_backtest
    /\ {r.kind : r \in simulated} = {"buy", "sell"}
    /\ buy_tasks["t1"] > 0

\* the number of a reconnect attempt among the consecutive attempts since
\* the last successful connect
AttemptNo(i) ==
    LET before == {j \in 1..(i - 1) : ws_events[j].kind = "connected"}
        last == IF before = {} THEN 0
                ELSE CHOOSE j \in before : \A k \in before : k <= j
    IN i - last

\* C29: the k-th consecutive reconnect attempt since the last successful
\* connect waits min(2^(k-1), max_retry_delay) seconds, and right after a
\* successful connect the attempt counter is 0.
C29_ExponentialBackoff ==
    /\ \A i \in DOMAIN ws_events :
           ws_events[i].kind = "attempt" =>
               ws_events[i].delay =
                   Min2(2 ^ (AttemptNo(i) - 1), max_retry_delay)
    /\ (ws_events # <<>> /\ ws_events[Len(ws_events)].kind = "connected")
           => retry_count = 0

\* an attempt late enough for the cap to apply
C29_Witness ==
    \E i \in DOMAIN ws_events :
        /\ ws_events[i].kind = "attempt"
        /\ 2 ^ (AttemptNo(i) - 1) > max_retry_delay

\* C30: whenever the heartbeat reads the block number and no new chain head
\* has been observed for longer than stall_threshold seconds, it emits the
\* stall warning.
C30_StallWarning ==
    (last_beat.checked /\ ~last_beat.advanced
        /\ last_beat.stalled_for > stall_threshold)
    => last_beat.warned

\* C31: while the position of a token is partial_sold, its peak_price never
\* decreases, and after a price update it is the larger of the peak before
\* the update and the observed price.
C31_PeakTracksMaximum ==
    [][ \A t \in PosTokens :
          (HasKey(positions, t) /\ HasKey(positions', t)
             /\ objs[Lookup(positions, t)].status = "partial_sold"
             /\ objs'[Lookup(positions', t)].status = "partial_sold")
          => LET old == objs[Lookup(positions, t)]
                 new == objs'[Lookup(positions', t)]
             IN /\ new.peak_price >= old.peak_price
                /\ (new.last_price # old.last_price
                      => new.peak_price = Max2(old.peak_price, new.last_price))
      ]_vars

\* C32: the creator blacklist only grows, and a should_buy call that starts
\* when the creator of its token is blacklisted and that reaches the creator
\* check (the basic checks pass) is rejected as blacklisted.
C32_BlacklistIsPermanent ==
    [][ /\ creator_blacklist \subseteq creator_blacklist'
        /\ (filter_calls' = filter_calls + 1
              /\ last_check'.token.creator \in creator_blacklist
              /\ BasicChecks(last_check'.token) = "passed"
              /\ enable_address_check)
           => (~last_check'.ok /\ last_check'.reason = "creator_blacklisted")
      ]_vars

\* a token of a creator blacklisted by an earlier call has been rejected
C32_Witness ==
    /\ last_check.stage = "returned"
    /\ last_check.reason = "creator_blacklisted"
    /\ last_check.token.creator \in creator_blacklist
    /\ BasicChecks(last_check.token) = "passed"

\* C33: a sell of the whole remainder that the price-update path or the
\* periodic check starts for a partial_sold position starts only when the
\* hold time of the position exceeds the moonshot max hold duration (the
\* first-stage time stop, max_hold_time, closes only holding positions).
C33_TimeStopByStage ==
    [][ Len(sells') > Len(sells) =>
          LET op == sells'[Len(sells')] IN
          (op.kind = "all" /\ op.caller \in {"price", "periodic"}
             /\ objs'[op.obj].status = "partial_sold")
          => clock - objs'[op.obj].buy_time > cfg.moonshot_max_hold
      ]_vars

\* C34: two distinct logs of one transaction (same transactionHash,
\* different logIndex), each delivered for the first time, are both
\* dispatched to the handlers, whichever path decoded them.
C34_LogsOfOneTxDistinguished ==
    \A i, j \in DOMAIN raw_logs :
        (/\ i < j
         /\ raw_logs[i] # NoLog /\ raw_logs[j] # NoLog
         /\ raw_logs[i].log.transactionHash = raw_logs[j].log.transactionHash
         /\ raw_logs[i].log.logIndex # raw_logs[j].log.logIndex
         /\ \A k \in 1..(j - 1) : raw_logs[k].log # raw_logs[j].log
         /\ \A k \in 1..(i - 1) : raw_logs[k].log # raw_logs[i].log)
        => (handled[i] /\ handled[j])

\* C35: a buy is submitted for a token (a task of _execute_buy_by_address is
\* created for it) only when no buy of the token is pending and the token
\* has no open position: no token comes back in a second hot signal.
C35_OneBuyPerToken ==
    [][ \A a \in Addresses :
          buy_tasks'[a] > buy_tasks[a]
          => (buy_tasks[a] = 0 /\ buy_tasks'[a] = 1 /\ ~HasKey(positions, a))
      ]_vars

\* the keys of the positions dict
TrackedTokens == {positions[i].k : i \in DOMAIN positions}

\* C36: whenever no buy and no sell is awaiting completion, the addresses in
\* RiskManager.active_positions are exactly the keys of
\* PositionTracker.positions, each of them once.
C36_SlotsMatchPositions ==
    (TaskCount(buy_tasks) = 0 /\ sells = <<>>) =>
        /\ {risk_manager.active_positions[i] :
               i \in DOMAIN risk_manager.active_positions} = TrackedTokens
        /\ Len(risk_manager.active_positions) = Cardinality(TrackedTokens)

C38_FlagIffBucketAtThreshold ==
    [][ /\ \A p \in DOMAIN symbol_clusters' \cup triggered_clusters' :
             p \in triggered_clusters'
             <=> (p \in DOMAIN symbol_clusters'
                    /\ Len(symbol_clusters'[p]) >= threshold)
        /\ (last_add'.n # last_add.n /\ TooShort(TokenSymbol[last_add'.addr]))
           => /\ ~last_add'.is_hot
              /\ last_add'.tokens = <<>>
              /\ symbol_clusters' = symbol_clusters
              /\ triggered_clusters' = triggered_clusters
      ]_vars

\* a call for a too-short symbol has returned while one bucket is flagged and
\* another one is stored below the threshold
C38_Witness ==
    /\ last_add.called
    /\ TooShort(TokenSymbol[last_add.addr])
    /\ triggered_clusters # {}
    /\ \E p \in DOMAIN symbol_clusters : Len(symbol_clusters[p]) < threshold

\* C39: the remaining amount of every position in the active map lies
\* between 0 and its total amount; and while a filled position stays in the
\* map its remaining amount never grows and shrinks only in the return of
\* a successful sell, by the amount of that sell.
C39_RemainingWithinTotal ==
    [][ \A t \in PosTokens :
          /\ HasKey(positions', t) =>
                LET new == objs'[Lookup(positions', t)] IN
                /\ 0 <= new.remaining_amount
                /\ new.remaining_amount <= new.total_amount
          /\ (HasKey(positions, t) /\ HasKey(positions', t)
                /\ objs[Lookup(positions, t)].entry_price # 0)
             => LET old == objs[Lookup(positions, t)]
                    new == objs'[Lookup(positions', t)]
                IN /\ new.remaining_amount <= old.remaining_amount
                   /\ new.remaining_amount < old.remaining_amount
                        => /\ last_sell'.kind # "none"
                           /\ last_sell'.ok
                           /\ \E i \in DOMAIN sells :
                                 old.remaining_amount - new.remaining_amount
                                    = sells[i].sell_amount
      ]_vars

\* C40: in every state of the connection manager, is_connected = True
\* implies that the client handle self.w3 is present.
C40_ConnectedImpliesHandle ==
    is_connected => w3 # NoHandle

\* ------------------------------------------------------------------------
\* Specifications
\* ------------------------------------------------------------------------
InitDedup == ListenerInit /\ RangeIdle /\ TrendInit /\ TradeInit /\ NonceInit /\ FilterInit /\ PollInit /\ WsInit /\ LiveTrading
NextDedup == \E e \in Events : ProcessEvent(e)
SpecDedup == InitDedup /\ [][NextDedup]_vars

\* logs of the chain decoded by either path and dispatched
NextDecode ==
    \E event_log \in RawLogs : \E decoder \in Decoders :
        \E event_name \in TradeEventNames :
            ParseAndProcess(event_log, decoder, event_name)
SpecDecode == InitDedup /\ [][NextDecode]_vars

\* every token is created once; each TokenCreate passes the filter and goes
\* through the trend tracker to the cluster buy
CreateSignal ==
    /\ last_add.n < Len(SignalOrder)
    /\ AfterFilter(TRUE, SignalOrder[last_add.n + 1])
    /\ UNCHANGED <<NotCoordinator, filterVars>>
NextSignal ==
    \/ CreateSignal
    \/ TrendTick
    \/ \E a \in TrendTokens : \E ok \in BOOLEAN : BuyReturn(a, ok)
SpecSignal == InitDedup /\ [][NextSignal]_vars

InitRange == ListenerInit /\ RangeInit /\ TrendInit /\ TradeInit /\ NonceInit /\ FilterInit /\ PollInit /\ WsInit /\ LiveTrading
NextRange == FetchOk \/ FetchOtherError \/ FetchRateLimited
SpecRange == InitRange /\ [][NextRange]_vars

InitTrend == ListenerInit /\ RangeIdle /\ TrendInit /\ TradeInit /\ NonceInit /\ FilterInit /\ PollInit /\ WsInit /\ LiveTrading
NextTrend == (\E a \in TrendInputs : AddToken(a)) \/ TrendTick \/ TrendReset
SpecTrend == InitTrend /\ [][NextTrend]_vars

\* the position life cycle of one token under the default parameters
InitPosition == ListenerInit /\ RangeIdle /\ TrendInit /\ TradeInit /\ NonceInit /\ FilterInit /\ PollInit /\ WsInit /\ LiveTrading
NextPosition ==
    \/ Tick
    \/ HandleHotCluster(<<"t1">>)
    \/ \E t \in PosTokens : \E ok \in BOOLEAN : BuyReturn(t, ok)
    \/ \E t \in PosTokens : \E p \in Prices : OnTokenPurchase(t, p)
    \/ \E t \in PosTokens : \E p \in Prices : OnTokenSale(t, p)
    \/ PeriodicStart
    \/ \E i \in 1..MaxSells : \E ok \in BOOLEAN : SellReturn(i, ok)
SpecPosition == InitPosition /\ [][NextPosition]_vars

\* the life cycle of the position of the first buy signal, under every
\* strategy configuration of Configs
Configs == {DefaultCfg, OverlapCfg}
ClosePrices == {1, 3}
FirstSignal ==
    /\ risk_manager.daily_trades = 0
    /\ buy_tasks["t1"] = 0
    /\ HandleHotCluster(<<"t1">>)
NextLifeCycle ==
    \/ Tick
    \/ FirstSignal
    \/ \E t \in PosTokens : \E ok \in BOOLEAN : BuyReturn(t, ok)
    \/ \E t \in PosTokens : \E p \in ClosePrices : OnTokenPurchase(t, p)
    \/ PeriodicStart
    \/ \E i \in 1..MaxSells : \E ok \in BOOLEAN : SellReturn(i, ok)
InitPositionCfg ==
    /\ ListenerInit /\ RangeIdle /\ TrendInit /\ NonceInit /\ FilterInit /\ PollInit /\ WsInit /\ LiveTrading
    /\ \E c \in Configs : TradeInitWith(c)
SpecPositionCfg == InitPositionCfg /\ [][NextLifeCycle]_vars

\* buy attempts for several tokens against the risk ceilings
ClusterInputs == { <<"t1">>, <<"t2">>, <<"t1", "t2">>, <<"t2", "t1">> }
RiskPrices == {6}
InitRisk == ListenerInit /\ RangeIdle /\ TrendInit /\ TradeInit /\ NonceInit /\ FilterInit /\ PollInit /\ WsInit /\ LiveTrading
NextRisk ==
    \/ Tick
    \/ DayRoll
    \/ \E c \in ClusterInputs : HandleHotCluster(c)
    \/ \E t \in Tokens : \E ok \in BOOLEAN : BuyReturn(t, ok)
    \/ \E t \in Tokens : \E p \in RiskPrices : OnTokenPurchase(t, p)
    \/ PeriodicStart
    \/ \E i \in 1..MaxSells : \E ok \in BOOLEAN : SellReturn(i, ok)
SpecRisk == InitRisk /\ [][NextRisk]_vars

\* concurrent buy_token and sell_token calls on one wallet
InitNonce == ListenerInit /\ RangeIdle /\ TrendInit /\ TradeInit /\ NonceInit /\ FilterInit /\ PollInit /\ WsInit /\ LiveTrading
NextNonce ==
    \/ \E t \in NonceTasks : StartBuy(t)
    \/ \E t \in NonceTasks : StartSell(t)
    \/ \E t \in NonceTasks : \E ok \in BOOLEAN : GasPrice(t, ok)
    \/ \E t \in NonceTasks : \E r \in {"enough", "low", "error"} :
           Allowance(t, r)
    \/ \E t \in NonceTasks : GetNextNonce(t)
    \/ \E t \in NonceTasks : \E ok \in BOOLEAN : ReadCount(t, ok)
    \/ \E t \in NonceTasks : \E r \in {"ok", "reverted", "allowance", "other"} :
           EstimateGas(t, r)
    \/ \E t \in NonceTasks : \E ok \in BOOLEAN : EstimateAgain(t, ok)
    \/ \E t \in NonceTasks : \E ok \in BOOLEAN : ApproveSend(t, ok)
    \/ \E t \in NonceTasks : \E ok \in BOOLEAN : SendRaw(t, ok)
    \/ \E t \in NonceTasks : WaitForTx(t)
    \/ \E t \in NonceTasks : ResetNonce(t)
    \/ Mine
SpecNonce == InitNonce /\ [][NextNonce]_vars

\* The life cycle of the position of the first buy signal, ending with a
\* closing phase: no buy signal and no buy result arrives any more, an
\* unfilled position sees its purchase first, then time passes, the periodic
\* check runs (run_periodic_check loops forever) and every sell succeeds.
MaxCloseClock == MaxClock + 2
BeginClosing ==
    /\ ~winding_down
    /\ winding_down' = TRUE
    /\ UNCHANGED <<listenerVars, rangeVars, trendVars, tradeVars, nonceVars,
                   filterVars, pollVars, configVars, wsVars,
                   liquidation>>
ClosingStep ==
    \/ \E t \in PosTokens : \E p \in ClosePrices :
           Unfilled(t) /\ OnTokenPurchase(t, p)
    \/ (\A t \in PosTokens : ~Unfilled(t)) /\ TickTo(MaxCloseClock)
    \/ (\A t \in PosTokens : ~Unfilled(t)) /\ PeriodicStart
    \/ \E i \in 1..MaxSells : SellReturn(i, TRUE)
NextClose ==
    \/ ~winding_down /\ NextLifeCycle
    \/ BeginClosing
    \/ winding_down /\ ClosingStep
SpecClose ==
    /\ InitPosition
    /\ [][NextClose]_vars
    /\ WF_vars(winding_down /\ ClosingStep)


\* The life cycle of the position of the first buy signal, ended by the
\* shutdown: once close_all runs, only its own sells return.
NextShutdown ==
    \/ liquidation.pc = "running" /\ NextLifeCycle
    \/ /\ liquidation.pc = "running"
       /\ \E t \in PosTokens : \E p \in ClosePrices : OnTokenSale(t, p)
    \/ Shutdown
    \/ /\ liquidation.pc = "selling"
       /\ \E i \in 1..MaxSells : \E ok \in BOOLEAN : SellReturn(i, ok)
SpecShutdown == InitPosition /\ [][NextShutdown]_vars


\* TokenCreate events passed to should_buy
InitFilter == ListenerInit /\ RangeIdle /\ TrendInit /\ TradeInit /\ NonceInit /\ FilterInit /\ PollInit /\ WsInit /\ LiveTrading
NextFilter ==
    \/ \E token_info \in TokenInfos : ShouldBuy(token_info)
    \/ \E i \in 1..MaxReputationCalls : \E r \in Reputations :
           ReputationReturn(i, r)
    \/ FilterTick
SpecFilter == InitFilter /\ [][NextFilter]_vars


\* events of every type dispatched to handlers that may raise
MaxDispatches == 3
NextDispatch ==
    \E event_name \in EventNames : \E e \in Events : \E raising \in RaiseChoices :
        Len(arrivals) < MaxDispatches /\ Dispatch(event_name, e, raising)
SpecDispatch == InitDedup /\ [][NextDispatch]_vars


\* the polling loop over a chain of MaxBlock blocks
NextPoll ==
    \/ \E latest \in 1..MaxBlock : Poll(latest)
    \/ \E latest \in 0..MaxBlock : PollNothingNew(latest)
    \/ PollError
    \/ FetchLogs
    \/ \E i \in DOMAIN gather_tasks : \E stop \in 0..2 : RunTask(i, stop)
    \/ GatherDone
    \/ /\ gather_tasks = <<>>
       /\ calls # <<>>
       /\ LogsOf(Head(calls).from_block, Head(calls).to_block) = <<>>
       /\ FetchOk
    \/ gather_tasks = <<>> /\ FetchOtherError
    \/ gather_tasks = <<>> /\ FetchRateLimited
    \/ PollDone
SpecPoll == InitDedup /\ [][NextPoll]_vars


\* TokenCreate events handled by the coordinator, with trend tracking on
\* or off
InitCoordinator ==
    /\ ListenerInit /\ RangeIdle /\ TrendInit /\ TradeInit /\ NonceInit
    /\ FilterInit /\ PollInit /\ WsInit
    /\ enable_trading = TRUE /\ enable_backtest = FALSE
    /\ trend_tracker_on \in BOOLEAN
NextCoordinator ==
    \/ \E ev \in CreateEvents : OnTokenCreate(ev)
    \/ \E i \in 1..MaxReputationCalls : \E r \in Reputations :
           OnTokenCreateResume(i, r)
    \/ FilterTick
SpecCoordinator == InitCoordinator /\ [][NextCoordinator]_vars


\* one buy_token or sell_token call at a time and the buy of the first hot
\* signal, under every combination of the flags
InitModes ==
    /\ ListenerInit /\ RangeIdle /\ TrendInit /\ TradeInit /\ NonceInit
    /\ FilterInit /\ PollInit /\ WsInit /\ AnyConfig
NextModes ==
    \/ StartBuy(1)
    \/ StartSell(1)
    \/ \E ok \in BOOLEAN : GasPrice(1, ok)
    \/ \E r \in {"enough", "low", "error"} : Allowance(1, r)
    \/ GetNextNonce(1)
    \/ \E ok \in BOOLEAN : ReadCount(1, ok)
    \/ \E r \in {"ok", "reverted", "allowance", "other"} : EstimateGas(1, r)
    \/ \E ok \in BOOLEAN : EstimateAgain(1, ok)
    \/ \E ok \in BOOLEAN : ApproveSend(1, ok)
    \/ \E ok \in BOOLEAN : SendRaw(1, ok)
    \/ WaitForTx(1)
    \/ ResetNonce(1)
    \/ Mine
    \/ FirstSignal
    \/ \E ok \in BOOLEAN : BuyReturn("t1", ok)
SpecModes == InitModes /\ [][NextModes]_vars


\* the heartbeat and the listener both use the connection manager
InitWs ==
    /\ ListenerInit /\ RangeIdle /\ TrendInit /\ TradeInit /\ NonceInit
    /\ FilterInit /\ PollInit /\ WsInit /\ LiveTrading
NextReconnect ==
    \/ \E c \in WsCallers : \E ok \in BOOLEAN : EnsureConnection(c, ok)
    \/ \E c \in WsCallers : BackoffDone(c)
    \/ \E c \in WsCallers : Closed(c)
    \/ \E c \in WsCallers : \E ok \in BOOLEAN : Connected(c, ok)
    \/ \E c \in WsCallers : \E ok \in BOOLEAN : Dial(c, ok)
    \/ \E ok \in BOOLEAN : Beat(ok)
    \/ \E c \in WsCallers : WakeUp(c)
    \/ ElapseTo(MaxReconnectNow)
SpecReconnect == InitWs /\ [][NextReconnect]_vars

\* the heartbeat loop alone, over a chain that may stand still; the node
\* fails only during the first MaxBeatEvents connection events
MaxBeatEvents == 3
BeatOutcomes == IF Len(ws_events) < MaxBeatEvents THEN BOOLEAN ELSE {TRUE}
NextHeartbeat ==
    \/ \E ok \in BeatOutcomes : EnsureConnection("heartbeat", ok)
    \/ BackoffDone("heartbeat")
    \/ Closed("heartbeat")
    \/ \E ok \in BeatOutcomes : Connected("heartbeat", ok)
    \/ \E ok \in BeatOutcomes : Dial("heartbeat", ok)
    \/ \E ok \in BeatOutcomes : Beat(ok)
    \/ WakeUp("heartbeat")
    \/ Elapse
    \/ NewBlock
SpecHeartbeat == InitWs /\ [][NextHeartbeat]_vars

====
